---- MODULE Spec2Model ----
(***************************************************************************)
(* Model of the Cyber AI chat backend (POST /api/chat) in its six server   *)
(* variants:                                                               *)
(*   "serverGemini"   src/server.js 55-196                                 *)
(*   "serverGroq"     src/server.js 275-378                                *)
(*   "part000Gemini"  src/unnamed/part_000 60-181                          *)
(*   "part000Groq"    src/unnamed/part_000 275-387                         *)
(*   "part001Gemini"  src/unnamed/part_001 60-225                          *)
(*   "part002Groq"    src/unnamed/part_002 81-244                          *)
(* and of the browser page that talks to it (src/script.js): the reply     *)
(* normalizer cleanResponse and the chat sessions kept in localStorage.    *)
(*                                                                         *)
(* Spec      one request through the handler of a variant, or one GET of   *)
(*           /health or /test                                              *)
(* SpecPair  two failed requests with their fallback replies               *)
(* SpecNorm  a normalizer applied to a text, and applied again             *)
(* SpecStore one visit of the page: sending, new chat, loading a chat      *)
(* SpecTabs  the same visit with a second tab open on the same storage     *)
(*                                                                         *)
(* JavaScript strings are sequences of one-character strings, so that      *)
(* toLowerCase, trim, includes and the regular-expression replacements     *)
(* are computed character by character.                                    *)
(***************************************************************************)
EXTENDS Integers, Sequences, FiniteSets, TLC

(***************************************************************************)
(* Bounds                                                                  *)
(***************************************************************************)
\* greatest number of entries in the messages array of a request
MaxMsgs == 2

\* greatest number of assistant messages that follow the user message of a
\* request
MaxTrailing == 8

\* greatest number of pieces a text handed to the normalizer is made of
MaxFragments == 3

\* greatest number of operations of the page in one visit: calls of
\* sendMessage that pass the guard, new chats, loads of a saved chat and
\* clock ticks
MaxSteps == 3

(***************************************************************************)
(* JavaScript string primitives                                            *)
(***************************************************************************)
UpperChars == <<"A", "B", "C", "D", "E", "F", "G", "H", "I", "J", "K", "L", "M",
                "N", "O", "P", "Q", "R", "S", "T", "U", "V", "W", "X", "Y", "Z">>

LowerChars == <<"a", "b", "c", "d", "e", "f", "g", "h", "i", "j", "k", "l", "m",
                "n", "o", "p", "q", "r", "s", "t", "u", "v", "w", "x", "y", "z">>

\* String.prototype.toLowerCase on one character
toLowerChar(c) ==
    IF \E i \in 1..26 : UpperChars[i] = c
    THEN LowerChars[CHOOSE i \in 1..26 : UpperChars[i] = c]
    ELSE c

\* String.prototype.toLowerCase
toLowerCase(s) == [i \in 1..Len(s) |-> toLowerChar(s[i])]

\* the white space and line terminators String.prototype.trim strips
WhiteSpace == {" ", "\t", "\n", "\r"}

\* String.prototype.trim
trim(s) ==
    IF \A i \in 1..Len(s) : s[i] \in WhiteSpace
    THEN << >>
    ELSE LET first == CHOOSE i \in 1..Len(s) :
                          /\ s[i] \notin WhiteSpace
                          /\ \A j \in 1..(i - 1) : s[j] \in WhiteSpace
             last  == CHOOSE i \in 1..Len(s) :
                          /\ s[i] \notin WhiteSpace
                          /\ \A j \in (i + 1)..Len(s) : s[j] \in WhiteSpace
         IN  SubSeq(s, first, last)

\* pat occurs in s at index i (code units compared exactly)
matchAt(s, pat, i) ==
    /\ i >= 1
    /\ i + Len(pat) - 1 <= Len(s)
    /\ \A k \in 1..Len(pat) : s[i + k - 1] = pat[k]

\* String.prototype.includes
includes(s, pat) == \E i \in 1..(Len(s) + 1) : matchAt(s, pat, i)

RECURSIVE replaceFrom(_, _, _, _, _)
\* s.replace(/pat/gi, rep) from index i on, low being s in lower case (the
\* pattern is written in lower case and flag i ignores case): leftmost
\* matches, not overlapping
replaceFrom(s, low, pat, rep, i) ==
    IF i > Len(s) THEN << >>
    ELSE IF matchAt(low, pat, i)
         THEN rep \o replaceFrom(s, low, pat, rep, i + Len(pat))
         ELSE <<s[i]>> \o replaceFrom(s, low, pat, rep, i + 1)

\* s.replace(/pat/gi, rep) for a literal, non-empty pattern pat
replaceAllCI(s, pat, rep) == replaceFrom(s, toLowerCase(s), pat, rep, 1)

\* index of the last character of the line that holds index i ("." matches
\* every character but a line terminator)
lineEnd(s, i) ==
    IF \E j \in i..Len(s) : s[j] \in {"\n", "\r"}
    THEN (CHOOSE j \in i..Len(s) :
              /\ s[j] \in {"\n", "\r"}
              /\ \A k \in i..(j - 1) : s[k] \notin {"\n", "\r"}) - 1
    ELSE Len(s)

RECURSIVE replaceToEolFrom(_, _, _, _, _)
\* s.replace(/pat.*/gi, rep) from index i on
replaceToEolFrom(s, low, pat, rep, i) ==
    IF i > Len(s) THEN << >>
    ELSE IF matchAt(low, pat, i)
         THEN rep \o replaceToEolFrom(s, low, pat, rep, lineEnd(s, i) + 1)
         ELSE <<s[i]>> \o replaceToEolFrom(s, low, pat, rep, i + 1)

\* s.replace(/pat.*/gi, rep)
replaceToEol(s, pat, rep) == replaceToEolFrom(s, toLowerCase(s), pat, rep, 1)

RECURSIVE replaceSpanFrom(_, _, _, _, _, _)
\* s.replace(/open.*close/gi, rep) from index i on: ".*" is greedy, so the
\* match runs to the last occurrence of close on the line
replaceSpanFrom(s, low, open, close, rep, i) ==
    IF i > Len(s) THEN << >>
    ELSE IF ~matchAt(low, open, i)
         THEN <<s[i]>> \o replaceSpanFrom(s, low, open, close, rep, i + 1)
         ELSE LET ends == {j \in (i + Len(open))..(lineEnd(s, i) - Len(close) + 1) :
                               matchAt(low, close, j)}
              IN  IF ends = {}
                  THEN <<s[i]>> \o replaceSpanFrom(s, low, open, close, rep, i + 1)
                  ELSE LET j == CHOOSE e \in ends : \A f \in ends : f <= e
                       IN  rep \o replaceSpanFrom(s, low, open, close, rep, j + Len(close))

\* s.replace(/open.*close/gi, rep)
replaceSpan(s, open, close, rep) ==
    replaceSpanFrom(s, toLowerCase(s), open, close, rep, 1)

(***************************************************************************)
(* Literals of the source, as character sequences                          *)
(***************************************************************************)
\* keywords of the fallback selection (server.js 171-173, 365-367;
\* part_002 215-219)
\* "hello"
kwHello == <<"h", "e", "l", "l", "o">>

\* "hi"
kwHi == <<"h", "i">>

\* "name"
kwName == <<"n", "a", "m", "e">>

\* "cyber"
kwCyber == <<"c", "y", "b", "e", "r">>

\* "security"
kwSecurity == <<"s", "e", "c", "u", "r", "i", "t", "y">>

\* "kya"
kwKya == <<"k", "y", "a">>

\* "hindi"
kwHindi == <<"h", "i", "n", "d", "i">>

\* keys of the quick-reply caches (server.js 294-300; part_000 298-308;
\* part_002 110-120)
\* "hello"
keyHello == <<"h", "e", "l", "l", "o">>

\* "hi"
keyHi == <<"h", "i">>

\* "what is your name"
keyWhatIsYourName == <<"w", "h", "a", "t", " ", "i", "s", " ", "y", "o", "u", "r", " ", "n", "a", "m", "e">>

\* "kya haal hai"
keyKyaHaalHai == <<"k", "y", "a", " ", "h", "a", "a", "l", " ", "h", "a", "i">>

\* "kya haal hai bhai"
keyKyaHaalHaiBhai == <<"k", "y", "a", " ", "h", "a", "a", "l", " ", "h", "a", "i", " ", "b", "h", "a", "i">>

\* "phishing kya hota hai"
keyPhishing == <<"p", "h", "i", "s", "h", "i", "n", "g", " ", "k", "y", "a", " ", "h", "o", "t", "a", " ", "h", "a", "i">>

\* "who created you"
keyWhoCreatedYou == <<"w", "h", "o", " ", "c", "r", "e", "a", "t", "e", "d", " ", "y", "o", "u">>

\* "cyber security"
keyCyberSecurity == <<"c", "y", "b", "e", "r", " ", "s", "e", "c", "u", "r", "i", "t", "y">>

\* "thank you"
keyThankYou == <<"t", "h", "a", "n", "k", " ", "y", "o", "u">>

\* "bye"
keyBye == <<"b", "y", "e">>

\* the all-lower-case property names an object literal inherits from
\* Object.prototype: cache[userMsg] finds them through the prototype chain
\* "constructor"
protoConstructor == <<"c", "o", "n", "s", "t", "r", "u", "c", "t", "o", "r">>

\* "__proto__"
protoProto == <<"_", "_", "p", "r", "o", "t", "o", "_", "_">>

\* patterns and substitutes of the clean steps (server.js 140-147;
\* part_000 132-137; part_001 231-241)
\* "gemini"
reGemini == <<"g", "e", "m", "i", "n", "i">>

\* "google"
reGoogle == <<"g", "o", "o", "g", "l", "e">>

\* "powered by"
rePoweredBy == <<"p", "o", "w", "e", "r", "e", "d", " ", "b", "y">>

\* "i'm an ai"
reImAnAi == <<"i", "'", "m", " ", "a", "n", " ", "a", "i">>

\* "model"
reModel == <<"m", "o", "d", "e", "l">>

\* "as an ai assistant"
reAsAnAiAssistant == <<"a", "s", " ", "a", "n", " ", "a", "i", " ", "a", "s", "s", "i", "s", "t", "a", "n", "t">>

\* "language model"
reLanguageModel == <<"l", "a", "n", "g", "u", "a", "g", "e", " ", "m", "o", "d", "e", "l">>

\* "developed by google"
reDevelopedByGoogle == <<"d", "e", "v", "e", "l", "o", "p", "e", "d", " ", "b", "y", " ", "g", "o", "o", "g", "l", "e">>

\* "i am an ai"
reIAmAnAi == <<"i", " ", "a", "m", " ", "a", "n", " ", "a", "i">>

\* "ai language model"
reAiLanguageModel == <<"a", "i", " ", "l", "a", "n", "g", "u", "a", "g", "e", " ", "m", "o", "d", "e", "l">>

\* "Cyber AI"
subCyberAI == <<"C", "y", "b", "e", "r", " ", "A", "I">>

\* "I'm Cyber AI"
subImCyberAI == <<"I", "'", "m", " ", "C", "y", "b", "e", "r", " ", "A", "I">>

\* "as Cyber AI"
subAsCyberAI == <<"a", "s", " ", "C", "y", "b", "e", "r", " ", "A", "I">>

\* "assistant"
subAssistant == <<"a", "s", "s", "i", "s", "t", "a", "n", "t">>

\* "developed by Team Cybersecurity"
subDevelopedByTeam == <<"d", "e", "v", "e", "l", "o", "p", "e", "d", " ", "b", "y", " ", "T", "e", "a", "m", " ", "C", "y", "b", "e", "r", "s", "e", "c", "u", "r", "i", "t", "y">>

\* "I am Cyber AI"
subIAmCyberAI == <<"I", " ", "a", "m", " ", "C", "y", "b", "e", "r", " ", "A", "I">>

\* "AI assistant"
subAIAssistant == <<"A", "I", " ", "a", "s", "s", "i", "s", "t", "a", "n", "t">>

\* branding checks and prefixes (part_000 362-363; part_002 186-187)
\* "Cyber AI"
brandCyberAI == <<"C", "y", "b", "e", "r", " ", "A", "I">>

\* "The World of Cybersecurity"
brandWorld == <<"T", "h", "e", " ", "W", "o", "r", "l", "d", " ", "o", "f", " ", "C", "y", "b", "e", "r", "s", "e", "c", "u", "r", "i", "t", "y">>

\* "I'm Cyber AI, created by 'The World of Cybersecurity'. "
brandPrefix002 == <<"I", "'", "m", " ", "C", "y", "b", "e", "r", " ", "A", "I", ",", " ", "c", "r", "e", "a", "t", "e", "d", " ", "b", "y", " ", "'", "T", "h", "e", " ", "W", "o", "r", "l", "d", " ", "o", "f", " ", "C", "y", "b", "e", "r", "s", "e", "c", "u", "r", "i", "t", "y", "'", ".", " ">>

\* "I'm Cyber AI. "
brandPrefix000 == <<"I", "'", "m", " ", "C", "y", "b", "e", "r", " ", "A", "I", ".", " ">>

(***************************************************************************)
(* JavaScript values                                                       *)
(*                                                                         *)
(* A value is a record [t, s, lit]: t is the type, s the characters of a   *)
(* string the program computes on, lit a string literal of the source that *)
(* the program only passes along (canned replies; emoji are written as     *)
(* names in parentheses).                                                  *)
(***************************************************************************)
Str(cs)   == [t |-> "string",    s |-> cs,    lit |-> ""]
Lit(x)    == [t |-> "string",    s |-> << >>, lit |-> x]
Undefined == [t |-> "undefined", s |-> << >>, lit |-> ""]
Null      == [t |-> "null",      s |-> << >>, lit |-> ""]
\* a number other than 0 and NaN
Num       == [t |-> "number",    s |-> << >>, lit |-> ""]
Func      == [t |-> "function",  s |-> << >>, lit |-> ""]
Obj       == [t |-> "object",    s |-> << >>, lit |-> ""]

\* ToBoolean
truthy(v) ==
    CASE v.t = "string"               -> v.s # << >> \/ v.lit # ""
      [] v.t \in {"undefined", "null"} -> FALSE
      [] OTHER                         -> TRUE

\* what JSON.stringify leaves of the value of an object property: a
\* property holding undefined or a function is omitted
jsonProperty(v) == IF v.t \in {"undefined", "function"} THEN Undefined ELSE v

\* obj[key] for an object literal obj (a function from its own keys to
\* string literals): own properties first, then Object.prototype
propertyGet(obj, key) ==
    IF key \in DOMAIN obj THEN Lit(obj[key])
    ELSE IF key = protoConstructor THEN Func
    ELSE IF key = protoProto THEN Obj
    ELSE Undefined

(***************************************************************************)
(* Response Normalizer: the clean steps                                    *)
(***************************************************************************)
\* server.js 140-147
cleanServerGemini(text) ==
    LET r1 == replaceAllCI(text, reGemini, subCyberAI)
        r2 == replaceAllCI(r1, reGoogle, << >>)
        r3 == replaceToEol(r2, rePoweredBy, << >>)
        r4 == replaceSpan(r3, reImAnAi, reModel, subImCyberAI)
        r5 == replaceAllCI(r4, reAsAnAiAssistant, subAsCyberAI)
        r6 == replaceAllCI(r5, reLanguageModel, subAssistant)
    IN  trim(r6)

\* part_000 132-137
cleanPart000Gemini(text) ==
    LET r1 == replaceAllCI(text, reGemini, subCyberAI)
        r2 == replaceAllCI(r1, reGoogle, << >>)
        r3 == replaceToEol(r2, rePoweredBy, << >>)
        r4 == replaceSpan(r3, reImAnAi, reModel, subImCyberAI)
    IN  trim(r4)

\* part_001 228-242, for a non-empty string text
cleanAIResponse(text) ==
    LET r1 == replaceAllCI(text, reGemini, subCyberAI)
        r2 == replaceAllCI(r1, reGoogle, << >>)
        r3 == replaceToEol(r2, rePoweredBy, << >>)
        r4 == replaceSpan(r3, reImAnAi, reModel, subImCyberAI)
        r5 == replaceAllCI(r4, reAsAnAiAssistant, subAsCyberAI)
        r6 == replaceAllCI(r5, reDevelopedByGoogle, subDevelopedByTeam)
        r7 == replaceAllCI(r6, reIAmAnAi, subIAmCyberAI)
        r8 == replaceAllCI(r7, reAiLanguageModel, subAIAssistant)
        r9 == replaceAllCI(r8, reLanguageModel, subAssistant)
    IN  trim(r9)

\* script.js 302-310: the client's chain, which does not trim
cleanResponse(text) ==
    LET r1 == replaceAllCI(text, reGemini, subCyberAI)
        r2 == replaceAllCI(r1, reGoogle, << >>)
        r3 == replaceToEol(r2, rePoweredBy, << >>)
        r4 == replaceSpan(r3, reImAnAi, reModel, subImCyberAI)
        r5 == replaceAllCI(r4, reAsAnAiAssistant, subAsCyberAI)
        r6 == replaceAllCI(r5, reDevelopedByGoogle, subDevelopedByTeam)
    IN  r6

\* the replacement chains, by the program that holds them
Normalizers == {"serverGemini", "part000Gemini", "part001Gemini", "script"}

normalize(n, text) ==
    CASE n = "serverGemini"  -> cleanServerGemini(text)
      [] n = "part000Gemini" -> cleanPart000Gemini(text)
      [] n = "part001Gemini" -> cleanAIResponse(text)
      [] n = "script"        -> cleanResponse(text)

(***************************************************************************)
(* Quick-Reply Cache                                                       *)
(***************************************************************************)
\* server.js 294-300
cacheServerGroq ==
    (keyHello :> "Hello! (wave) I'm Cyber AI!")
    @@ (keyHi :> "Hi! I'm Cyber AI! (smile)")
    @@ (keyWhatIsYourName :> "I'm Cyber AI!")
    @@ (keyKyaHaalHai :> "Main theek hoon! (smile) Aap kaise ho?")
    @@ (keyPhishing :> "Phishing ek cyber attack hai. Fake emails se bachna important hai! (lock)")

\* part_000 298-308
quickResponses ==
    (keyHello :> "Hello! (wave) I'm Cyber AI, created by 'The World of Cybersecurity'!")
    @@ (keyHi :> "Hi! I'm Cyber AI! (smile) Need cybersecurity help?")
    @@ (keyWhatIsYourName :> "I'm Cyber AI, developed by Team Cybersecurity! (lock)")
    @@ (keyKyaHaalHai :> "Main theek hoon! (smile) Aap kaise ho? Main Cyber AI hoon!")
    @@ (keyKyaHaalHaiBhai :> "Main theek hoon bhai! (smile) Cybersecurity mein kya help chahiye?")
    @@ (keyWhoCreatedYou :> "Created by 'The World of Cybersecurity', developed by Team Cybersecurity! (robot)")
    @@ (keyCyberSecurity :> "Cybersecurity protects systems from digital attacks. Need specific help?")
    @@ (keyThankYou :> "You're welcome! (smile) Stay secure!")
    @@ (keyBye :> "Goodbye! (wave) Stay safe online!")

\* part_002 110-120
cachePart002 ==
    (keyHello :> "Hello! (wave) I'm Cyber AI, created by 'The World of Cybersecurity'!")
    @@ (keyHi :> "Hi! I'm Cyber AI! (smile) How can I assist you with cybersecurity?")
    @@ (keyWhatIsYourName :> "I'm Cyber AI, developed by Team Cybersecurity! (lock)")
    @@ (keyKyaHaalHai :> "Main theek hoon! (smile) Aap kaise ho? Main Cyber AI hoon, 'The World of Cybersecurity' ka creation!")
    @@ (keyPhishing :> "Phishing ek cyber attack hai jisme attackers fake emails, messages ya websites ke through aapki personal information steal karte hain. (lock) Bachne ke liye: 1) Unknown links pe click na karein 2) Email verification check karein 3) Two-factor authentication use karein")
    @@ (keyWhoCreatedYou :> "I was created by 'The World of Cybersecurity' and developed by Team Cybersecurity! (robot)")
    @@ (keyCyberSecurity :> "Cybersecurity is the practice of protecting systems, networks, and programs from digital attacks. (lock) Main areas include: 1) Network Security 2) Application Security 3) Information Security 4) Operational Security 5) Disaster Recovery")
    @@ (keyThankYou :> "You're welcome! (smile) Stay secure and feel free to ask anything about cybersecurity!")
    @@ (keyBye :> "Goodbye! (wave) Remember to stay secure online! Team Cybersecurity wishes you a safe digital journey!")

\* the lookup key without the trim: content.toLowerCase()
userMsgKeyNoTrim(content) == toLowerCase(content)

\* the normalized lookup key: content.toLowerCase().trim()
\* (server.js 291; part_000 310; part_002 107)
userMsgKey(content) == trim(toLowerCase(content))

\* cache[userMsg] (server.js 302, 307; part_000 312, 317; part_002 122, 127)
quickReply(cache, userMsg) == propertyGet(cache, userMsg)

(***************************************************************************)
(* Fallback Selector                                                       *)
(***************************************************************************)
\* server.js 170-185: if / else if / else on userMessage.toLowerCase()
fallbackServerGemini(userMessage) ==
    LET msg == toLowerCase(userMessage)
    IN  IF includes(msg, kwHello) \/ includes(msg, kwHi)
        THEN "Hello! (wave) I'm Cyber AI, your security and programming assistant. How can I help you today?"
        ELSE IF includes(msg, kwName)
        THEN "I'm Cyber AI, created by Team Cybersecurity! Nice to meet you! (smile)"
        ELSE "Hello! I'm Cyber AI. \n\nI can help you with:\n- (lock) Cybersecurity & online safety\n- (laptop) Programming (Python, JavaScript, etc.)\n- (robot) AI & technology concepts\n- (shield) Digital privacy tips\n\nWhat would you like to know?"

\* server.js 364-367: three independent if statements, each overwriting
\* fallback; userMsg is already lower-cased
fallbackServerGroq(userMsg) ==
    LET f0 == "I'm Cyber AI! How can I help?"
        f1 == IF includes(userMsg, kwHello) \/ includes(userMsg, kwHi)
              THEN "Hello! (wave)" ELSE f0
        f2 == IF includes(userMsg, kwName) THEN "I'm Cyber AI! (smile)" ELSE f1
        f3 == IF includes(userMsg, kwKya) THEN "Main Cyber AI hoon! (robot)" ELSE f2
    IN  f3

\* part_000 161-170
fallbackPart000Gemini ==
    "I'm Cyber AI, created by \"The World of Cybersecurity\". \n\nI specialize in:\n- (lock) Cybersecurity & threat prevention\n- (laptop) Programming (Python, JavaScript, Java)\n- (robot) AI & Machine Learning concepts\n- (shield) Digital safety practices\n- (chart) Technology guidance\n\nHow can I assist you today?"

\* part_000 382
fallbackPart000Groq ==
    "Hello! I'm Cyber AI. I'm here to help with cybersecurity! (lock) What would you like to know?"

\* part_001 204-220: selected by error.response?.status and error.code
fallbackPart001(error) ==
    IF error.hasResponse /\ error.status = 429
    THEN "I'm experiencing some technical difficulties. The service is receiving too many requests. Please try again in a moment.\n\nIn the meantime, I can still help you with:\n(lock) Cybersecurity basics\n(laptop) Programming concepts\n(robot) AI explanations\n(shield) Security best practices\n\nWhat would you like to know?"
    ELSE IF error.hasResponse /\ error.status = 403
    THEN "I'm experiencing some technical difficulties. API access issue detected. Please check configuration.\n\nIn the meantime, I can still help you with:\n(lock) Cybersecurity basics\n(laptop) Programming concepts\n(robot) AI explanations\n(shield) Security best practices\n\nWhat would you like to know?"
    ELSE IF error.code = "ECONNABORTED"
    THEN "I'm experiencing some technical difficulties. The request timed out. Please try again.\n\nIn the meantime, I can still help you with:\n(lock) Cybersecurity basics\n(laptop) Programming concepts\n(robot) AI explanations\n(shield) Security best practices\n\nWhat would you like to know?"
    ELSE "I'm experiencing some technical difficulties. Please try again or rephrase your question.\n\nIn the meantime, I can still help you with:\n(lock) Cybersecurity basics\n(laptop) Programming concepts\n(robot) AI explanations\n(shield) Security best practices\n\nWhat would you like to know?"

\* part_002 213-225: userMsg is already lower-cased
fallbackPart002(userMsg, error) ==
    IF includes(userMsg, kwHello) \/ includes(userMsg, kwHi)
    THEN "Hello! I'm Cyber AI, created by 'The World of Cybersecurity'. (wave) How can I help you with cybersecurity today?"
    ELSE IF includes(userMsg, kwSecurity) \/ includes(userMsg, kwCyber)
    THEN "Hello! I'm Cyber AI, created by 'The World of Cybersecurity'. Cybersecurity involves protecting systems, networks, and data from digital attacks. (lock)"
    ELSE IF includes(userMsg, kwHindi) \/ includes(userMsg, kwKya)
    THEN "Hello! I'm Cyber AI, created by 'The World of Cybersecurity'. Main Cyber AI hoon, 'The World of Cybersecurity' dwara banaya gaya! Aapki kya madad kar sakta hoon?"
    ELSE IF error.hasResponse /\ error.errorCode = "model_decommissioned"
    THEN "(warning) **Model Update Required**\n\nThe AI model needs to be updated. Please contact the administrator to update the backend configuration with a newer model like 'llama-3.3-70b-versatile'."
    ELSE "Hello! I'm Cyber AI, created by 'The World of Cybersecurity'. I specialize in cybersecurity, programming, and AI topics. What would you like to know?"

(***************************************************************************)
(* Requests: the JSON body of POST /api/chat                               *)
(***************************************************************************)
\* contents of user messages the model sends
\* "hello"
txHello == <<"h", "e", "l", "l", "o">>

\* " Hello "
txHelloMixed == <<" ", "H", "e", "l", "l", "o", " ">>

\* "HI"
txHiUpper == <<"H", "I">>

\* ""
txEmpty == <<>>

\* "  "
txBlank == <<" ", " ">>

\* "constructor"
txConstructor == <<"c", "o", "n", "s", "t", "r", "u", "c", "t", "o", "r">>

\* "hello name"
txHelloName == <<"h", "e", "l", "l", "o", " ", "n", "a", "m", "e">>

\* "hello, what is cyber security"
txHelloCyber == <<"h", "e", "l", "l", "o", ",", " ", "w", "h", "a", "t", " ", "i", "s", " ", "c", "y", "b", "e", "r", " ", "s", "e", "c", "u", "r", "i", "t", "y">>

\* "tell me more"
txTell == <<"t", "e", "l", "l", " ", "m", "e", " ", "m", "o", "r", "e">>

\* "kya name"
txKyaName == <<"k", "y", "a", " ", "n", "a", "m", "e">>
\* content of the system message the client sends first (script.js 183-195)
\* "be brief"
txSys == <<"b", "e", " ", "b", "r", "i", "e", "f">>
\* content of an assistant message of the history the client sends
\* "sure"
txReply == <<"s", "u", "r", "e">>
UserTexts == {txHello, txHelloMixed, txHiUpper, txEmpty, txBlank, txConstructor,
              txHelloName, txHelloCyber, txTell, txKyaName}

\* an entry of the messages array: null, or an object with role and content
NullEntry == [isNull |-> TRUE, role |-> "", content |-> Undefined]
Message(role, content) == [isNull |-> FALSE, role |-> role, content |-> content]

\* a user message holds a string, no content property, or a number
UserEntries ==
    {Message("user", Str(t)) : t \in UserTexts}
    \cup {Message("user", Undefined), Message("user", Num)}

Entries == UserEntries \cup {NullEntry, Message("system", Str(txSys))}

SeqsUpTo(S, n) == UNION {[1..k -> S] : k \in 0..n}

\* req.body: messages is missing, a truthy value that is no array (a
\* string), or an array of at most MaxMsgs entries
Bodies ==
    {[messages |-> "absent", items |-> << >>],
     [messages |-> "nonarray", items |-> << >>]}
    \cup {[messages |-> "array", items |-> items] : items \in SeqsUpTo(Entries, MaxMsgs)}

\* a user message followed by n assistant messages
Trailing(n) ==
    [messages |-> "array",
     items |-> <<Message("user", Str(txTell))>>
               \o [i \in 1..n |-> Message("assistant", Str(txReply))]]

\* requests that end in up to MaxTrailing assistant messages
TrailingBodies == {Trailing(n) : n \in 1..MaxTrailing}

NoBody == [messages |-> "none", items |-> << >>]

(***************************************************************************)
(* Upstream Client: how the one axios.post settles                         *)
(***************************************************************************)
\* texts a provider generates
\* "ok"
ptOk == <<"o", "k">>

\* "Google"
ptGoogle == <<"G", "o", "o", "g", "l", "e">>

\* "Cyber AI: ok"
ptBranded == <<"C", "y", "b", "e", "r", " ", "A", "I", ":", " ", "o", "k">>

\* "I'm Gemini, powered by Google's language model."
ptVendor == <<"I", "'", "m", " ", "G", "e", "m", "i", "n", "i", ",", " ", "p", "o", "w", "e", "r", "e", "d", " ", "b", "y", " ", "G", "o", "o", "g", "l", "e", "'", "s", " ", "l", "a", "n", "g", "u", "a", "g", "e", " ", "m", "o", "d", "e", "l", ".">>
ProviderTexts == {ptOk, ptGoogle, ptBranded, ptVendor, << >>}

\* The promise rejects (timeout: code ECONNABORTED and no response; a
\* status outside 2xx: response.status and the provider's error object in
\* response.data.error) or resolves with response.data, where
\*   candidates is "absent", "empty" ([]), "noContent" (candidates[0] has
\*     no content), "noParts" (content.parts is []), "noText" (parts[0] has
\*     no text) or "text" (parts[0].text is text);
\*   choices is "absent", "nullContent" (choices[0].message.content is
\*     null) or "text" (choices[0].message.content is text);
\*   blocked tells whether promptFeedback.blockReason is set.
Settles(settled, status, code, errorCode, errorMessage, blocked, candidates, choices, text) ==
    [settled |-> settled, status |-> status, code |-> code,
     errorCode |-> errorCode, errorMessage |-> errorMessage,
     blocked |-> blocked, candidates |-> candidates, choices |-> choices,
     text |-> text]

Rejects(status, code, errorCode, errorMessage) ==
    Settles("rejected", status, code, errorCode, errorMessage, FALSE, "absent", "absent", << >>)

Resolves(blocked, candidates, choices, text) ==
    Settles("resolved", 200, "", "", "", blocked, candidates, choices, text)

UpstreamFailures ==
    {Rejects(0, "ECONNABORTED", "", "timeout of 30000ms exceeded"),
     Rejects(400, "ERR_BAD_REQUEST", "model_decommissioned", "The model has been decommissioned"),
     Rejects(400, "ERR_BAD_REQUEST", "invalid_request_error", "Invalid request"),
     Rejects(401, "ERR_BAD_REQUEST", "invalid_api_key", "Invalid API Key"),
     Rejects(403, "ERR_BAD_REQUEST", "permission_denied", "Permission denied"),
     Rejects(429, "ERR_BAD_REQUEST", "rate_limit_exceeded", "Rate limit reached"),
     Rejects(500, "ERR_BAD_RESPONSE", "internal_server_error", "Internal error")}

UpstreamSuccesses ==
    {Resolves(FALSE, "absent", "text", t) : t \in ProviderTexts}
    \cup {Resolves(FALSE, "text", "absent", t) : t \in ProviderTexts}
    \cup {Resolves(FALSE, "absent", "nullContent", << >>),
          Resolves(FALSE, "absent", "absent", << >>),
          Resolves(TRUE, "absent", "absent", << >>),
          Resolves(FALSE, "empty", "absent", << >>),
          Resolves(FALSE, "noContent", "absent", << >>),
          Resolves(FALSE, "noParts", "absent", << >>),
          Resolves(FALSE, "noText", "absent", << >>)}

UpstreamOutcomes == UpstreamFailures \cup UpstreamSuccesses

NoOutcome == Settles("none", 0, "", "", "", FALSE, "absent", "absent", << >>)

(***************************************************************************)
(* Errors thrown inside the handler                                        *)
(***************************************************************************)
JsError(name, message) ==
    [name |-> name, message |-> message, hasResponse |-> FALSE, status |-> 0,
     code |-> "", errorCode |-> "", errorMessage |-> ""]

\* reading a property of null or undefined, or calling a missing method
TypeError == JsError("TypeError", "TypeError")

\* the error axios.post rejects with
AxiosError(o) ==
    [name |-> "AxiosError", message |-> "AxiosError",
     hasResponse |-> (o.status # 0), status |-> o.status, code |-> o.code,
     errorCode |-> o.errorCode, errorMessage |-> o.errorMessage]

NoError == JsError("none", "")

(***************************************************************************)
(* Chat Request Handler                                                    *)
(*                                                                         *)
(* Each handler is an async function whose body is one try/catch.  Its     *)
(* try block runs to a response, to the await of axios.post, or to a       *)
(* throw; after the await it runs to a response or a throw; the catch      *)
(* block runs to a response or throws itself.                              *)
(***************************************************************************)
NoResponse == [status |-> 0, choices |-> << >>, error |-> Undefined, fallback |-> FALSE]

\* res.json({choices: [{message: {role: "assistant", content}}]})
Envelope(content) ==
    [status |-> 200,
     choices |-> <<[role |-> "assistant", content |-> jsonProperty(content)]>>,
     error |-> Undefined, fallback |-> FALSE]

\* res.status(400).json({error})
BadRequest(error) ==
    [status |-> 400, choices |-> << >>, error |-> Lit(error), fallback |-> FALSE]

Responds(resp, path) == [out |-> "respond", resp |-> resp, path |-> path, err |-> NoError]
Awaits               == [out |-> "await", resp |-> NoResponse, path |-> "", err |-> NoError]
Throws(err)          == [out |-> "throw", resp |-> NoResponse, path |-> "", err |-> err]

\* messages.filter(m => m.role === "user") reads .role of every entry and
\* throws on a null one
filterThrows(items) == \E i \in 1..Len(items) : items[i].isNull

userMessagesOf(items) == SelectSeq(items, LAMBDA m : m.role = "user")

\* messages.find(m => m.role === "user") reads .role of the entries up to
\* the first user message and throws on a null one among them
findThrows(items) ==
    \E i \in 1..Len(items) :
        /\ items[i].isNull
        /\ \A j \in 1..(i - 1) : items[j].role # "user"

\* the entry messages.find(m => m.role === "user") returns, if any
firstUser(items) ==
    LET um == userMessagesOf(items)
    IN  IF um = << >> THEN NullEntry ELSE um[1]

\* ---- try blocks, up to the upstream call ----

\* server.js 57-123; part_000 62-121; part_001 64-156
TryGemini(body) ==
    IF body.messages # "array"
    THEN Responds(BadRequest("Messages array is required"), "validation")
    ELSE IF filterThrows(body.items) THEN Throws(TypeError)
    ELSE LET userMessages == userMessagesOf(body.items)
         IN  IF userMessages = << >>
             THEN Responds(BadRequest("No valid user message found"), "validation")
             ELSE LET lastMessage == userMessages[Len(userMessages)]
                  IN  IF lastMessage.content.t # "string" THEN Throws(TypeError)
                      ELSE IF trim(lastMessage.content.s) = << >>
                      THEN Responds(BadRequest("No valid user message found"), "validation")
                      ELSE Awaits

\* the Groq try block with the credential check moved before the cache
\* lookup
TryGroqFromKeyFirst(body, cache, greeting, hasKey) ==
    IF filterThrows(body.items) THEN Throws(TypeError)
    ELSE LET userMessages == userMessagesOf(body.items)
         IN  IF userMessages = << >>
             THEN Responds(Envelope(Lit(greeting)), "greeting")
             ELSE LET lastUserMessage == userMessages[Len(userMessages)]
                  IN  IF lastUserMessage.content.t # "string" THEN Throws(TypeError)
                      ELSE LET userMsg == userMsgKey(lastUserMessage.content.s)
                           IN  IF ~hasKey
                               THEN Throws(JsError("Error", "API key not configured"))
                               ELSE IF truthy(quickReply(cache, userMsg))
                               THEN Responds(Envelope(quickReply(cache, userMsg)), "quick")
                               ELSE Awaits

\* the part of the Groq try blocks that follows the check of messages:
\* server.js 278-316; part_000 283-338; part_002 94-158
TryGroqFrom(body, cache, greeting, hasKey) ==
    IF filterThrows(body.items) THEN Throws(TypeError)
    ELSE LET userMessages == userMessagesOf(body.items)
         IN  IF userMessages = << >>
             THEN Responds(Envelope(Lit(greeting)), "greeting")
             ELSE LET lastUserMessage == userMessages[Len(userMessages)]
                  IN  IF lastUserMessage.content.t # "string" THEN Throws(TypeError)
                      ELSE LET userMsg == userMsgKey(lastUserMessage.content.s)
                           IN  IF truthy(quickReply(cache, userMsg))
                               THEN Responds(Envelope(quickReply(cache, userMsg)), "quick")
                               ELSE IF ~hasKey
                               THEN Throws(JsError("Error", "API key not configured"))
                               ELSE Awaits

\* server.js 276-342: messages is not checked, so messages.filter throws
\* when messages is missing or has no filter method
TryServerGroq(body, hasKey) ==
    IF body.messages # "array" THEN Throws(TypeError)
    ELSE TryGroqFrom(body, cacheServerGroq, "Hello! I'm Cyber AI. How can I help you?", hasKey)

\* part_000 276-356 (the process exits at start when the key is missing)
TryPart000Groq(body) ==
    IF body.messages # "array"
    THEN Responds(BadRequest("Messages array required"), "validation")
    ELSE TryGroqFrom(body, quickResponses,
                     "Hello! I'm Cyber AI. How can I help you with cybersecurity today?", TRUE)

\* part_002 82-177 (the process exits at start when the key is missing)
TryPart002Groq(body) ==
    IF body.messages # "array"
    THEN Responds(BadRequest("Invalid request format"), "validation")
    ELSE TryGroqFrom(body, cachePart002,
                     "Hello! I'm Cyber AI, created by 'The World of Cybersecurity'. How can I help you with security today?", TRUE)

\* ---- try blocks, after the upstream call has settled as o ----

\* server.js 116-157
ResumeServerGemini(o) ==
    IF o.settled = "rejected" THEN Throws(AxiosError(o))
    ELSE IF o.candidates \in {"noParts", "noText", "text"}
    THEN IF o.candidates = "text"
         THEN Responds(Envelope(Str(cleanServerGemini(o.text))), "success")
         ELSE Throws(TypeError)
    ELSE IF o.choices = "text" /\ o.text # << >>
    THEN Responds(Envelope(Str(cleanServerGemini(o.text))), "success")
    ELSE Throws(JsError("Error", "Unexpected response format from Gemini"))

\* part_000 114-155
ResumePart000Gemini(o) ==
    IF o.settled = "rejected" THEN Throws(AxiosError(o))
    ELSE IF o.candidates \in {"absent", "empty"}
    THEN Throws(JsError("Error", "No response generated from AI"))
    ELSE IF o.candidates = "text"
    THEN Responds(Envelope(Str(cleanPart000Gemini(o.text))), "success")
    ELSE Throws(TypeError)

\* part_001 147-198; cleanAIResponse returns a missing or empty text as is
ResumePart001Gemini(o) ==
    IF o.settled = "rejected" THEN Throws(AxiosError(o))
    ELSE IF o.blocked THEN Throws(JsError("Error", "Content blocked"))
    ELSE IF o.candidates \in {"absent", "empty"}
    THEN Throws(JsError("Error", "No response generated from AI"))
    ELSE IF o.candidates \in {"noContent", "noParts"} THEN Throws(TypeError)
    ELSE IF o.candidates = "noText" THEN Responds(Envelope(Undefined), "success")
    ELSE IF o.text = << >> THEN Responds(Envelope(Str(<< >>)), "success")
    ELSE Responds(Envelope(Str(cleanAIResponse(o.text))), "success")

\* server.js 318-357
ResumeServerGroq(o) ==
    IF o.settled = "rejected" THEN Throws(AxiosError(o))
    ELSE IF o.choices = "text" /\ o.text # << >>
    THEN Responds(Envelope(Str(o.text)), "success")
    ELSE Responds(Envelope(Lit("Hello! I'm Cyber AI.")), "success")

\* part_000 338-373
ResumePart000Groq(o) ==
    IF o.settled = "rejected" THEN Throws(AxiosError(o))
    ELSE IF o.choices = "text" /\ o.text # << >>
    THEN IF ~includes(o.text, brandCyberAI)
         THEN Responds(Envelope(Str(brandPrefix000 \o o.text)), "success")
         ELSE Responds(Envelope(Str(o.text)), "success")
    ELSE Responds(Envelope(Lit("I'm Cyber AI. How can I help?")), "success")

\* part_002 158-204
ResumePart002Groq(o) ==
    IF o.settled = "rejected" THEN Throws(AxiosError(o))
    ELSE IF ~(o.choices = "text" /\ o.text # << >>)
    THEN Throws(JsError("Error", "Invalid response format from Groq API"))
    ELSE IF ~includes(o.text, brandCyberAI) /\ ~includes(o.text, brandWorld)
    THEN Responds(Envelope(Str(brandPrefix002 \o o.text)), "success")
    ELSE Responds(Envelope(Str(o.text)), "success")

\* ---- catch blocks ----

\* req.body?.messages?.find(m => m.role === "user")?.content
\* (server.js 168, 362; part_002 210): "throws" when find is no function or
\* reads a null entry, else the content of the first user message
\* (undefined when there is none)
findUserContent(body) ==
    IF body.messages = "absent" THEN [throws |-> FALSE, content |-> Undefined]
    ELSE IF body.messages = "nonarray" THEN [throws |-> TRUE, content |-> Undefined]
    ELSE IF findThrows(body.items) THEN [throws |-> TRUE, content |-> Undefined]
    ELSE [throws |-> FALSE, content |-> firstUser(body.items).content]

\* server.js 159-195: (content || "").toLowerCase()
CatchServerGemini(body, error) ==
    LET found == findUserContent(body)
    IN  IF found.throws THEN Throws(TypeError)
        ELSE IF ~truthy(found.content)
        THEN Responds(Envelope(Lit(fallbackServerGemini(<< >>))), "fallback")
        ELSE IF found.content.t # "string" THEN Throws(TypeError)
        ELSE Responds(Envelope(Lit(fallbackServerGemini(found.content.s))), "fallback")

\* server.js 359-377: content?.toLowerCase() || ""
CatchServerGroq(body, error) ==
    LET found == findUserContent(body)
    IN  IF found.throws THEN Throws(TypeError)
        ELSE IF found.content.t \in {"undefined", "null"}
        THEN Responds(Envelope(Lit(fallbackServerGroq(<< >>))), "fallback")
        ELSE IF found.content.t # "string" THEN Throws(TypeError)
        ELSE Responds(Envelope(Lit(fallbackServerGroq(toLowerCase(found.content.s)))), "fallback")

\* part_000 157-180
CatchPart000Gemini(body, error) ==
    Responds(Envelope(Lit(fallbackPart000Gemini)), "fallback")

\* part_000 375-386
CatchPart000Groq(body, error) ==
    Responds(Envelope(Lit(fallbackPart000Groq)), "fallback")

\* part_001 200-224
CatchPart001Gemini(body, error) ==
    Responds(Envelope(Lit(fallbackPart001(error))), "fallback")

\* the envelope of part_002 233-242, which adds error and fallback
FallbackEnvelope002(content, error) ==
    [Envelope(content) EXCEPT
        !.error = IF error.hasResponse /\ error.errorMessage # ""
                  THEN Lit(error.errorMessage) ELSE Lit(error.message),
        !.fallback = TRUE]

\* part_002 206-243: content?.toLowerCase() || ""
CatchPart002Groq(body, error) ==
    LET found == findUserContent(body)
    IN  IF found.throws THEN Throws(TypeError)
        ELSE IF found.content.t \in {"undefined", "null"}
        THEN Responds(FallbackEnvelope002(Lit(fallbackPart002(<< >>, error)), error), "fallback")
        ELSE IF found.content.t # "string" THEN Throws(TypeError)
        ELSE Responds(FallbackEnvelope002(
                          Lit(fallbackPart002(toLowerCase(found.content.s), error)), error),
                      "fallback")

\* ---- GET /health and GET /test ----

\* the value of <PROVIDER>_API_KEY when it is set: "gsk_Ab12Cd34Ef56Gh78"
ApiKey == <<"g", "s", "k", "_", "A", "b", "1", "2", "C", "d", "3", "4", "E", "f", "5", "6", "G", "h", "7", "8">>

\* process.env.<PROVIDER>_API_KEY: the key, or undefined
envApiKey(hasKey) == IF hasKey THEN Str(ApiKey) ELSE Undefined

\* "Not available"
notAvailable == <<"N", "o", "t", " ", "a", "v", "a", "i", "l", "a", "b", "l", "e">>

\* part_002 63-65: GROQ_API_KEY.substring(0, 8) + '...' +
\* GROQ_API_KEY.substring(GROQ_API_KEY.length - 4), or 'Not available'
maskedKey(key) ==
    IF truthy(key)
    THEN SubSeq(key.s, 1, 8) \o <<".", ".", ".">>
         \o SubSeq(key.s, Len(key.s) - 3, Len(key.s))
    ELSE notAvailable

\* the body of a GET response: what it says about the key, and the preview
\* of the key where the body has one
InfoBody(endpoint, status, keyStatus, keyPreview) ==
    [endpoint |-> endpoint, status |-> status, keyStatus |-> keyStatus,
     keyPreview |-> keyPreview]

NoInfo == InfoBody("", 0, "", << >>)

\* GET /health: server.js 44-52, part_000 48-58 and part_001 47-57
\* (geminiStatus), server.js 266-273 and part_000 265-272 (nothing about the
\* key), part_002 61-78 (keyStatus and keyPreview)
health(v, key) ==
    CASE v \in {"serverGemini", "part000Gemini", "part001Gemini"} ->
            InfoBody("/health", 200,
                     IF truthy(key) THEN "configured" ELSE "not_configured", << >>)
      [] v \in {"serverGroq", "part000Groq"} ->
            InfoBody("/health", 200, "", << >>)
      [] v = "part002Groq" ->
            InfoBody("/health", 200,
                     IF truthy(key) THEN "Configured (check)" ELSE "Missing (cross)",
                     maskedKey(key))

\* GET /test: part_002 247-255; the 404 handler in the other programs
test(v) ==
    IF v = "part002Groq"
    THEN InfoBody("/test", 200, "", << >>)
    ELSE InfoBody("/test", 404, "", << >>)

\* ---- the payload of the upstream call ----

\* messages.slice(-n)
lastN(items, n) ==
    IF Len(items) <= n THEN items ELSE SubSeq(items, Len(items) - n + 1, Len(items))

\* what is sent upstream: the fixed system instruction, a window of the
\* request's messages, and the content of the last user message where the
\* handler adds it by itself
UpstreamPayload(system, window, current) ==
    [system |-> system, window |-> window, current |-> current]

NoPayload == UpstreamPayload(FALSE, << >>, Undefined)

\* the payload each handler builds for a request that reaches axios.post:
\* server.js 72-96 and part_000 77-98 (prompt with lastMessage.content),
\* part_001 85-117 (prompt with messages.slice(-6) and lastMessage.content),
\* server.js 322-331 (system message and lastUserMessage.content),
\* part_000 342-345 (system message and messages.slice(-5)),
\* part_002 134-153 (system message and messages.slice(-8))
Payload(v, body) ==
    LET userMessages == userMessagesOf(body.items)
        lastMessage  == userMessages[Len(userMessages)]
    IN  CASE v \in {"serverGemini", "part000Gemini", "serverGroq"} ->
                UpstreamPayload(TRUE, << >>, lastMessage.content)
          [] v = "part001Gemini" ->
                UpstreamPayload(TRUE, lastN(body.items, 6), lastMessage.content)
          [] v = "part000Groq" ->
                UpstreamPayload(TRUE, lastN(body.items, 5), Undefined)
          [] v = "part002Groq" ->
                UpstreamPayload(TRUE, lastN(body.items, 8), Undefined)

\* ---- the handler of each variant ----
Variants == {"serverGemini", "serverGroq", "part000Gemini", "part000Groq",
             "part001Gemini", "part002Groq"}

GeminiVariants == {"serverGemini", "part000Gemini", "part001Gemini"}

Try(v, body, hasKey) ==
    CASE v \in GeminiVariants -> TryGemini(body)
      [] v = "serverGroq"     -> TryServerGroq(body, hasKey)
      [] v = "part000Groq"    -> TryPart000Groq(body)
      [] v = "part002Groq"    -> TryPart002Groq(body)

\* the handler issuing axios.post again when the call was rejected
ResumeRetry(v, o) ==
    IF o.settled = "rejected" THEN Awaits
    ELSE CASE v = "serverGemini"  -> ResumeServerGemini(o)
           [] v = "serverGroq"    -> ResumeServerGroq(o)
           [] v = "part000Gemini" -> ResumePart000Gemini(o)
           [] v = "part000Groq"   -> ResumePart000Groq(o)
           [] v = "part001Gemini" -> ResumePart001Gemini(o)
           [] v = "part002Groq"   -> ResumePart002Groq(o)

\* the handler after its one axios.post has settled as o
Resume(v, o) ==
    CASE v = "serverGemini"  -> ResumeServerGemini(o)
      [] v = "serverGroq"    -> ResumeServerGroq(o)
      [] v = "part000Gemini" -> ResumePart000Gemini(o)
      [] v = "part000Groq"   -> ResumePart000Groq(o)
      [] v = "part001Gemini" -> ResumePart001Gemini(o)
      [] v = "part002Groq"   -> ResumePart002Groq(o)

Catch(v, body, error) ==
    CASE v = "serverGemini"  -> CatchServerGemini(body, error)
      [] v = "serverGroq"    -> CatchServerGroq(body, error)
      [] v = "part000Gemini" -> CatchPart000Gemini(body, error)
      [] v = "part000Groq"   -> CatchPart000Groq(body, error)
      [] v = "part001Gemini" -> CatchPart001Gemini(body, error)
      [] v = "part002Groq"   -> CatchPart002Groq(body, error)

\* a throw in the try block enters the catch block
Caught(v, body, r) == IF r.out = "throw" THEN Catch(v, body, r.err) ELSE r

(***************************************************************************)
(* The browser page (src/script.js): chat history and Session Store        *)
(*                                                                         *)
(* The object chatSessions is a sequence of sessions in the order of       *)
(* Object.entries, the order in which the keys were added.  Chat ids are   *)
(* numbered in the order generateChatId hands them out.                    *)
(***************************************************************************)
\* script.js 3
MAX_HISTORY_ITEMS == 50

\* script.js 555-556: the number of sessions saveChatSession keeps
SessionCap == 20

\* "..."
ellipsis == <<".", ".", ".">>

\* "New Chat"
titleNewChat == <<"N", "e", "w", " ", "C", "h", "a", "t">>

\* "what is phishing and how do i stop it" (more than 30 characters)
txLong == <<"w", "h", "a", "t", " ", "i", "s", " ", "p", "h", "i", "s", "h", "i", "n", "g", " ", "a", "n", "d", " ", "h", "o", "w", " ", "d", "o", " ", "i", " ", "s", "t", "o", "p", " ", "i", "t">>

\* what the user has typed when sendMessage runs
ClientInputs == {txHello, txBlank, txLong}

\* script.js 312-452: the canned replies are named by their first line
getFallbackResponse(userMessage) ==
    LET msg == toLowerCase(userMessage)
        has(w) == includes(msg, w)
    IN  IF has(kwHello) \/ has(kwHi) \/ has(<<"h", "e", "y">>)
        THEN "(wave) Hello! I'm **Cyber AI**, created by *\"The World of Cybersecurity\"*. "
        ELSE IF has(<<"p", "y", "t", "h", "o", "n">>) \/ has(<<"c", "o", "d", "e">>)
                \/ has(<<"p", "r", "o", "g", "r", "a", "m">>)
        THEN "(snake) **Python Security Programming**"
        ELSE IF has(kwCyber) \/ has(kwSecurity) \/ has(<<"h", "a", "c", "k">>)
        THEN "(shield) **Cybersecurity Essentials**"
        ELSE IF has(<<"a", "i">>)
                \/ has(<<"m", "a", "c", "h", "i", "n", "e", " ", "l", "e", "a", "r", "n", "i", "n", "g">>)
                \/ has(<<"n", "e", "u", "r", "a", "l">>)
        THEN "(robot) **AI & Machine Learning Security**"
        ELSE IF has(<<"t", "h", "a", "n", "k">>)
        THEN "You're welcome! I'm always here to help with your security and technology needs. Stay safe! (lock)"
        ELSE "(wrench) **Cyber AI - Your Security Assistant**"

\* an entry of chatHistory
HistoryEntry(role, content) == [role |-> role, content |-> content]

\* script.js 542: chatHistory.find(msg => msg.role === 'user')?.content
\* || 'New Chat'
titleOf(history) ==
    LET users == SelectSeq(history, LAMBDA m : m.role = "user")
    IN  IF users # << >> /\ truthy(users[1].content)
        THEN users[1].content.s
        ELSE titleNewChat

\* script.js 543 without the cut: the whole title
previewOfWhole(title) == title

\* script.js 543: title.substring(0, 30) + (title.length > 30 ? '...' : '')
previewOf(title) ==
    IF Len(title) > 30 THEN SubSeq(title, 1, 30) \o ellipsis ELSE title

\* script.js 545-551: the session object written under currentChatId
Session(id, history, t) ==
    [id |-> id, title |-> previewOf(titleOf(history)), messages |-> history,
     timestamp |-> t, lastUpdated |-> t]

\* the ids of the sessions of entries
idsOf(entries) == {entries[i].id : i \in 1..Len(entries)}

\* chatSessions[id] = session adding a second entry for a key that exists
upsertAppending(entries, session) == Append(entries, session)

\* chatSessions[id] = session: an existing key keeps its place, a new key
\* is added last
upsert(entries, session) ==
    IF session.id \in idsOf(entries)
    THEN [i \in 1..Len(entries) |->
             IF entries[i].id = session.id THEN session ELSE entries[i]]
    ELSE Append(entries, session)

RECURSIVE insertSorted(_, _)
\* e put into sorted behind every entry that is not older than e
insertSorted(sorted, e) ==
    IF sorted = << >> THEN <<e>>
    ELSE IF Head(sorted).lastUpdated >= e.lastUpdated
         THEN <<Head(sorted)>> \o insertSorted(Tail(sorted), e)
         ELSE <<e>> \o sorted

RECURSIVE sortByLastUpdated(_)
\* script.js 557: sessionArray.sort((a, b) => b[1].lastUpdated -
\* a[1].lastUpdated), a stable sort, most recently updated first
sortByLastUpdated(entries) ==
    IF entries = << >> THEN << >>
    ELSE insertSorted(sortByLastUpdated(SubSeq(entries, 1, Len(entries) - 1)),
                      entries[Len(entries)])

\* script.js 555-560 with the sort in ascending order
deletedByEvictionOldestKept(entries) ==
    IF Len(entries) > SessionCap
    THEN SubSeq(sortByLastUpdated(entries), 1, Len(entries) - SessionCap)
    ELSE << >>

\* script.js 555-559: sessionArray.slice(20) of the sorted entries
deletedByEviction(entries) ==
    IF Len(entries) > SessionCap
    THEN SubSeq(sortByLastUpdated(entries), SessionCap + 1, Len(entries))
    ELSE << >>

\* script.js 559: delete chatSessions[id] for every entry to delete
withoutSessions(entries, deleted) ==
    SelectSeq(entries, LAMBDA e : e.id \notin idsOf(deleted))

\* JSON.stringify(chatSessions): an object of key/value pairs in key order;
\* a property holding undefined is left out
JSONstringify(entries) ==
    [i \in 1..Len(entries) |->
        [key |-> entries[i].id,
         value |-> [id |-> entries[i].id,
                    title |-> entries[i].title,
                    messages |-> [k \in 1..Len(entries[i].messages) |->
                                     [role |-> entries[i].messages[k].role,
                                      content |-> jsonProperty(entries[i].messages[k].content)]],
                    timestamp |-> entries[i].timestamp,
                    lastUpdated |-> entries[i].lastUpdated]]]

\* the item of the key 'cyberAiChatSessions': missing, or a JSON text
NoItem == [present |-> FALSE, json |-> << >>]
Item(json) == [present |-> TRUE, json |-> json]

\* script.js 10: JSON.parse(localStorage.getItem(...)) || {}
JSONparse(item) ==
    IF ~item.present THEN << >>
    ELSE [i \in 1..Len(item.json) |->
             [id |-> item.json[i].key,
              title |-> item.json[i].value.title,
              messages |-> [k \in 1..Len(item.json[i].value.messages) |->
                               HistoryEntry(item.json[i].value.messages[k].role,
                                            item.json[i].value.messages[k].content)],
              timestamp |-> item.json[i].value.timestamp,
              lastUpdated |-> item.json[i].value.lastUpdated]]

\* script.js 539-563: saveChatSession on the page state (sessions, item)
\* with current chat id, history history and clock t; deleted is toDelete
saveChatSession(sessions, item, id, history, t) ==
    IF history = << >>
    THEN [sessions |-> sessions, item |-> item, deleted |-> << >>]
    ELSE LET entered == upsert(sessions, Session(id, history, t))
             deleted == deletedByEviction(entered)
             kept    == withoutSessions(entered, deleted)
         IN  [sessions |-> kept, item |-> Item(JSONstringify(kept)), deleted |-> deleted]

\* script.js 539-561 when localStorage.setItem (line 561) throws
\* QuotaExceededError: chatSessions was changed, the item was not, and the
\* exception leaves saveChatSession
saveChatSessionThrows(sessions, item, id, history, t) ==
    [sessions |-> saveChatSession(sessions, item, id, history, t).sessions,
     item |-> item,
     deleted |-> saveChatSession(sessions, item, id, history, t).deleted]

\* saveChatSession in a browser whose storage is full or not; threw tells
\* whether the call ended with the exception
trySave(sessions, item, id, history, t, full) ==
    LET throws == full /\ history # << >>
        saved  == IF throws
                  THEN saveChatSessionThrows(sessions, item, id, history, t)
                  ELSE saveChatSession(sessions, item, id, history, t)
    IN  [sessions |-> saved.sessions, item |-> saved.item,
         deleted |-> saved.deleted, threw |-> throws]

\* the exchange of one chat that was saved at time t
StoredExchange ==
    <<HistoryEntry("user", Str(txHello)), HistoryEntry("assistant", Str(ptOk))>>

\* the page state after k chats (k at most SessionCap) of one exchange each
\* were saved, chat i at time i
storeAfter(k) ==
    LET sessions == [i \in 1..k |-> Session(i, StoredExchange, i)]
    IN  [sessions |-> sessions,
         item |-> IF k = 0 THEN NoItem ELSE Item(JSONstringify(sessions)),
         deleted |-> << >>]

\* the page state after SessionCap chats of one exchange each were saved
\* while Date.now() returned the same number
storeTied ==
    LET sessions == [i \in 1..SessionCap |-> Session(i, StoredExchange, SessionCap)]
    IN  [sessions |-> sessions, item |-> Item(JSONstringify(sessions)),
         deleted |-> << >>]

\* a chat history of MAX_HISTORY_ITEMS entries: the same exchange again and
\* again
FullHistory ==
    [i \in 1..MAX_HISTORY_ITEMS |-> StoredExchange[2 - (i % 2)]]

\* the page state after one chat of MAX_HISTORY_ITEMS entries was saved
storeFullChat ==
    LET sessions == <<Session(1, FullHistory, 1)>>
    IN  [sessions |-> sessions, item |-> Item(JSONstringify(sessions)),
         deleted |-> << >>]

(***************************************************************************)
(* State                                                                   *)
(***************************************************************************)
VARIABLES
    variant,        \* which of the six server programs runs
    keyPresent,     \* whether <PROVIDER>_API_KEY is set in the environment
    expressMajor,   \* major version of the express package that is installed
    pc,             \* "idle", "awaiting" (axios.post pending), "responded",
                    \* "unanswered" (the handler's promise rejected),
                    \* "served" (a GET request was answered)
    request,        \* req.body of the request being handled
    outcome,        \* how the upstream call of this request settled
    response,       \* the HTTP response sent for this request
    path,           \* the branch that ended the handler
    upstreamCalls,  \* number of axios.post calls made for this request
    payload,        \* what the axios.post of this request sent upstream
    info,           \* the body of the response to GET /health or GET /test
    prev,           \* the fallback reply of an earlier request
    normalizer,     \* the replacement chain a text is put through
    normInput,      \* the text handed to the chain
    normPasses,     \* what the chain returned, pass after pass
    now,            \* the browser's clock: what Date.now() returns
    chatIds,        \* number of ids generateChatId has handed out
    currentChatId,  \* script.js 9
    chatHistory,    \* script.js 6
    chatSessions,   \* script.js 10: the entries of the object, in key order
    localStorage,   \* what is stored under the key 'cyberAiChatSessions'
    isProcessing,   \* script.js 7
    isConnected,    \* script.js 8
    inFlight,       \* the pending fetch of sendMessage and its message
    toDelete,       \* the entries the last saveChatSession deleted
    storageFull,    \* whether localStorage.setItem throws QuotaExceededError
    otherTab,       \* a second tab of the page on the same local storage
    budget          \* operations the page may still perform in this visit

\* the variables of the Response Normalizer on its own
normVars == <<normalizer, normInput, normPasses>>

\* the variables of the chat handler
serverVars == <<variant, keyPresent, expressMajor, pc, request, outcome, response,
                path, upstreamCalls, payload, info, prev>>

\* the variables of the browser page
clientVars == <<now, chatIds, currentChatId, chatHistory, chatSessions,
                localStorage, isProcessing, isConnected, inFlight, toDelete,
                storageFull, otherTab, budget>>

vars == <<serverVars, normVars, clientVars>>

NoPrev == [set |-> FALSE, text |-> Undefined, kind |-> "", content |-> Undefined]

\* no text is being normalized
NormIdle ==
    /\ normalizer = "serverGemini"
    /\ normInput = << >>
    /\ normPasses = << >>

\* no fetch of sendMessage is pending; count is the number of pending
\* fetches, chatId the chat that was current when sendMessage was called
NoFetch == [active |-> FALSE, message |-> << >>, chatId |-> 0, count |-> 0]

\* the state of a second tab (script.js 5-10 there): no second tab is open
NoTab == [open |-> FALSE, currentChatId |-> 0, chatHistory |-> << >>,
          chatSessions |-> << >>, toDelete |-> << >>]

\* no page is open
ClientIdle ==
    /\ now = 0
    /\ chatIds = 0
    /\ currentChatId = 0
    /\ chatHistory = << >>
    /\ chatSessions = << >>
    /\ localStorage = NoItem
    /\ isProcessing = FALSE
    /\ isConnected = FALSE
    /\ inFlight = NoFetch
    /\ toDelete = << >>
    /\ storageFull = FALSE
    /\ otherTab = NoTab
    /\ budget = 0

\* part_000 257-262 and part_002 54-58 exit at start without GROQ_API_KEY;
\* app.options('*', ...) of part_002 24 is rejected by express 5
Init ==
    /\ variant \in Variants
    /\ keyPresent \in BOOLEAN
    /\ variant \in {"part000Groq", "part002Groq"} => keyPresent
    /\ expressMajor \in {4, 5}
    /\ variant = "part002Groq" => expressMajor = 4
    /\ pc = "idle"
    /\ request = NoBody
    /\ outcome = NoOutcome
    /\ response = NoResponse
    /\ path = ""
    /\ upstreamCalls = 0
    /\ payload = NoPayload
    /\ info = NoInfo
    /\ prev = NoPrev
    /\ NormIdle
    /\ ClientIdle

\* res.status(500).json(...) of the error-handling middleware (server.js
\* 208-215; part_000 193-200; part_001 253-261) or of express's own
InternalError ==
    [status |-> 500, choices |-> << >>, error |-> Lit("Internal server error"),
     fallback |-> FALSE]

\* The handler has run to r.  An error thrown by the catch block rejects the
\* promise of the async handler: express 4 ignores the promise and the
\* request gets no response, express 5 passes the error on to the error
\* handler, which answers 500.
Ends(r, body) ==
    CASE r.out = "respond" ->
            /\ pc' = "responded"
            /\ response' = r.resp
            /\ path' = r.path
            /\ UNCHANGED <<upstreamCalls, payload>>
      [] r.out = "await" ->
            /\ pc' = "awaiting"
            /\ upstreamCalls' = upstreamCalls + 1
            /\ payload' = Payload(variant, body)
            /\ UNCHANGED <<response, path>>
      [] r.out = "throw" ->
            /\ pc' = IF expressMajor = 5 THEN "responded" ELSE "unanswered"
            /\ response' = IF expressMajor = 5 THEN InternalError ELSE NoResponse
            /\ path' = "unhandled"
            /\ UNCHANGED <<upstreamCalls, payload>>

(***************************************************************************)
(* Actions                                                                 *)
(***************************************************************************)
\* POST /api/chat arrives with a body of B: the handler runs until it
\* responds, awaits the upstream call, or fails
Receive(B) ==
    /\ pc = "idle"
    /\ \E body \in B :
          /\ request' = body
          /\ Ends(Caught(variant, body, Try(variant, body, keyPresent)), body)
    /\ UNCHANGED <<variant, keyPresent, expressMajor, outcome, info, prev>>
    /\ UNCHANGED <<normVars, clientVars>>

ChatRequest == Receive(Bodies \cup TrailingBodies)

\* the pending axios.post settles and the handler runs to its end
UpstreamSettles ==
    /\ pc = "awaiting"
    /\ \E o \in UpstreamOutcomes :
          /\ outcome' = o
          /\ Ends(Caught(variant, request, Resume(variant, o)), request)
    /\ UNCHANGED <<variant, keyPresent, expressMajor, request, info, prev>>
    /\ UNCHANGED <<normVars, clientVars>>

\* the exchange is over; the server is ready for the next request
Finish ==
    /\ pc \in {"responded", "unanswered", "served"}
    /\ pc' = "idle"
    /\ request' = NoBody
    /\ outcome' = NoOutcome
    /\ response' = NoResponse
    /\ path' = ""
    /\ upstreamCalls' = 0
    /\ payload' = NoPayload
    /\ info' = NoInfo
    /\ UNCHANGED <<variant, keyPresent, expressMajor, prev>>
    /\ UNCHANGED <<normVars, clientVars>>

\* GET /health is answered
GetHealth ==
    /\ pc = "idle"
    /\ pc' = "served"
    /\ info' = health(variant, envApiKey(keyPresent))
    /\ UNCHANGED <<variant, keyPresent, expressMajor, request, outcome, response,
                   path, upstreamCalls, payload, prev>>
    /\ UNCHANGED <<normVars, clientVars>>

\* GET /test is answered
GetTest ==
    /\ pc = "idle"
    /\ pc' = "served"
    /\ info' = test(variant)
    /\ UNCHANGED <<variant, keyPresent, expressMajor, request, outcome, response,
                   path, upstreamCalls, payload, prev>>
    /\ UNCHANGED <<normVars, clientVars>>

Next == ChatRequest \/ UpstreamSettles \/ Finish \/ GetHealth \/ GetTest

Spec == Init /\ [][Next]_vars

(***************************************************************************)
(* Two exchanges in a row: the second specification keeps the fallback     *)
(* reply of an earlier request in prev, so that two failures can be        *)
(* compared.  Its requests hold one user message.                          *)
(***************************************************************************)
PairBodies ==
    {[messages |-> "array", items |-> <<Message("user", Str(t))>>] : t \in UserTexts}

\* the failure kinds of the Upstream Client (spec section 4.2): Timeout,
\* AuthError (401/403), RateLimited (429), ServerError (5xx) and
\* MalformedResponse; a 400 is told apart by the provider's error code, a
\* missing credential is a kind of its own
FailureKind(o) ==
    CASE o.settled = "none"       -> "MissingCredential"
      [] o.settled = "resolved"   -> "MalformedResponse"
      [] o.status = 0             -> "Timeout"
      [] o.status \in {401, 403}  -> "AuthError"
      [] o.status = 429           -> "RateLimited"
      [] o.status >= 500          -> "ServerError"
      [] OTHER                    -> o.errorCode

\* the exchange is over and its fallback reply is kept for comparison
FinishRemember ==
    /\ pc = "responded"
    /\ path = "fallback"
    /\ prev' = [set |-> TRUE, text |-> request.items[1].content,
                kind |-> FailureKind(outcome),
                content |-> response.choices[1].content]
    /\ pc' = "idle"
    /\ request' = NoBody
    /\ outcome' = NoOutcome
    /\ response' = NoResponse
    /\ path' = ""
    /\ upstreamCalls' = 0
    /\ payload' = NoPayload
    /\ info' = NoInfo
    /\ UNCHANGED <<variant, keyPresent, expressMajor>>
    /\ UNCHANGED <<normVars, clientVars>>

ChatRequestPair == Receive(PairBodies)

NextPair == ChatRequestPair \/ UpstreamSettles \/ Finish \/ FinishRemember

SpecPair == Init /\ [][NextPair]_vars

(***************************************************************************)
(* The Response Normalizer on its own: a text is put through one of the    *)
(* replacement chains, and the result through the same chain again.        *)
(***************************************************************************)
\* pieces the texts are made of
\* "goo"
frGoo == <<"g", "o", "o">>

\* "gle"
frGle == <<"g", "l", "e">>

\* "Google"
frGoogle == <<"G", "o", "o", "g", "l", "e">>

\* "Gemini"
frGemini == <<"G", "e", "m", "i", "n", "i">>

\* "as an AI "
frAsAnAI == <<"a", "s", " ", "a", "n", " ", "A", "I", " ">>

\* "language model"
frLanguageModel == <<"l", "a", "n", "g", "u", "a", "g", "e", " ", "m", "o", "d", "e", "l">>

Fragments == {frGoo, frGle, frGoogle, frGemini, frAsAnAI, frLanguageModel}

RECURSIVE concat(_)
\* the pieces of a sequence joined into one text
concat(pieces) ==
    IF pieces = << >> THEN << >> ELSE Head(pieces) \o concat(Tail(pieces))

\* the texts of the provider and every text of at most MaxFragments pieces
NormInputs ==
    ProviderTexts \cup {concat(pieces) : pieces \in SeqsUpTo(Fragments, MaxFragments)}

InitNorm ==
    /\ variant = "serverGemini"
    /\ keyPresent = TRUE
    /\ expressMajor = 4
    /\ pc = "idle"
    /\ request = NoBody
    /\ outcome = NoOutcome
    /\ response = NoResponse
    /\ path = ""
    /\ upstreamCalls = 0
    /\ payload = NoPayload
    /\ info = NoInfo
    /\ prev = NoPrev
    /\ normalizer \in Normalizers
    /\ normInput \in NormInputs
    /\ normPasses = << >>
    /\ ClientIdle

\* the chain is applied to the text
Normalize ==
    /\ normPasses = << >>
    /\ normPasses' = <<normalize(normalizer, normInput)>>
    /\ UNCHANGED <<serverVars, clientVars, normalizer, normInput>>

\* the chain is applied to its own output
NormalizeAgain ==
    /\ Len(normPasses) = 1
    /\ normPasses' = Append(normPasses, normalize(normalizer, normPasses[1]))
    /\ UNCHANGED <<serverVars, clientVars, normalizer, normInput>>

NextNorm == Normalize \/ NormalizeAgain

SpecNorm == InitNorm /\ [][NextNorm]_vars

(***************************************************************************)
(* The browser page: one tab of src/script.js.  Local storage holds what   *)
(* earlier visits of the page saved.                                       *)
(***************************************************************************)
\* numbers of chats saved by earlier visits of the page
StoredAtStart == {0, SessionCap - 1, SessionCap}

\* what local storage holds when the page loads; Date.now() then returns a
\* later time than any save, or the time of the saves of storeTied
StoresAtStart ==
    {storeAfter(k) : k \in StoredAtStart} \cup {storeTied, storeFullChat}

\* how the fetch of sendMessage settles (script.js 207-245): with a reply
\* text in choices[0].message.content, with choices[0].message holding no
\* content, with a body of no known shape, with a status that is not ok, or
\* rejected
FetchResults ==
    {[kind |-> "ok", text |-> t] : t \in {ptBranded}}
    \cup {[kind |-> k, text |-> << >>] :
              k \in {"okNoContent", "okUnrecognized", "notOk", "rejected"}}

\* script.js 5-10 and initApp: the page has loaded
PageLoaded ==
    /\ variant = "serverGemini"
    /\ keyPresent = TRUE
    /\ expressMajor = 4
    /\ pc = "idle"
    /\ request = NoBody
    /\ outcome = NoOutcome
    /\ response = NoResponse
    /\ path = ""
    /\ upstreamCalls = 0
    /\ payload = NoPayload
    /\ info = NoInfo
    /\ prev = NoPrev
    /\ NormIdle
    /\ \E store \in StoresAtStart :
          /\ localStorage = store.item
          /\ now = IF store = storeTied
                   THEN SessionCap
                   ELSE Len(store.sessions) + 1
          /\ chatIds = Len(store.sessions) + 1
          /\ currentChatId = Len(store.sessions) + 1
    /\ chatSessions = JSONparse(localStorage)
    /\ chatHistory = << >>
    /\ isProcessing = FALSE
    /\ isConnected = FALSE
    /\ inFlight = NoFetch
    /\ toDelete = << >>
    /\ storageFull \in BOOLEAN
    /\ budget = MaxSteps

\* one tab is open
InitStore ==
    /\ PageLoaded
    /\ otherTab = NoTab

\* script.js 98-156: the fetch of testConnection settles; both branches set
\* isConnected
TestConnection ==
    /\ ~isConnected
    /\ isConnected' = TRUE
    /\ UNCHANGED <<now, chatIds, currentChatId, chatHistory, chatSessions,
                   localStorage, isProcessing, inFlight, toDelete, budget>>
    /\ UNCHANGED <<storageFull, otherTab, serverVars, normVars>>

\* script.js 159-218 with line 161 not testing isProcessing
SendMessageWhileProcessing ==
    /\ budget > 0
    /\ \E input \in ClientInputs :
          LET message == trim(input)
          IN  /\ message # << >>
              /\ isConnected
              /\ isProcessing' = TRUE
              /\ inFlight' = [active |-> TRUE, message |-> message,
                               chatId |-> currentChatId,
                               count |-> inFlight.count + 1]
    /\ budget' = budget - 1
    /\ UNCHANGED <<now, chatIds, currentChatId, chatHistory, chatSessions,
                   localStorage, isConnected, toDelete>>
    /\ UNCHANGED <<storageFull, otherTab, serverVars, normVars>>

\* script.js 159-218: sendMessage up to the await of fetch (the send button
\* and the Enter key, script.js 78-85, both end here)
SendMessage ==
    /\ budget > 0
    /\ \E input \in ClientInputs :
          LET message == trim(input)
          IN  /\ message # << >>
              /\ ~isProcessing
              /\ isConnected
              /\ isProcessing' = TRUE
              /\ inFlight' = [active |-> TRUE, message |-> message,
                               chatId |-> currentChatId,
                               count |-> inFlight.count + 1]
    /\ budget' = budget - 1
    /\ UNCHANGED <<now, chatIds, currentChatId, chatHistory, chatSessions,
                   localStorage, isConnected, toDelete>>
    /\ UNCHANGED <<storageFull, otherTab, serverVars, normVars>>

\* script.js 220-300: what sendMessage does once its fetch has settled with
\* result, through the success path or through the catch block; a
\* saveChatSession that throws on the success path (line 260) is caught at
\* line 269 and the catch block pushes and saves again (lines 283-290)
afterFetch(history, sessions, item, id, message, result, t, full) ==
    LET success  == result.kind = "ok"
        fallback == Lit(getFallbackResponse(message))
        reply    == IF success THEN Str(cleanResponse(result.text)) ELSE fallback
        pushed   == history \o <<HistoryEntry("user", Str(message)),
                                 HistoryEntry("assistant", reply)>>
        saved    == trySave(sessions, item, id, pushed, t, full)
        again    == pushed \o <<HistoryEntry("user", Str(message)),
                                HistoryEntry("assistant", fallback)>>
        resaved  == trySave(saved.sessions, saved.item, id, again, t, full)
    IN  IF success /\ saved.threw
        THEN [history |-> again, sessions |-> resaved.sessions,
              item |-> resaved.item, deleted |-> resaved.deleted]
        ELSE [history |-> IF success /\ Len(pushed) > MAX_HISTORY_ITEMS
                          THEN SubSeq(pushed, Len(pushed) - MAX_HISTORY_ITEMS + 1, Len(pushed))
                          ELSE pushed,
              sessions |-> saved.sessions, item |-> saved.item,
              deleted |-> saved.deleted]

\* script.js 220-300: the fetch settles and sendMessage runs to its end
FetchSettles ==
    /\ inFlight.active
    /\ \E result \in FetchResults :
          LET after == afterFetch(chatHistory, chatSessions, localStorage,
                                  currentChatId, inFlight.message, result, now,
                                  storageFull)
          IN  /\ chatHistory' = after.history
              /\ chatSessions' = after.sessions
              /\ localStorage' = after.item
              /\ toDelete' = after.deleted
    /\ isProcessing' = FALSE
    /\ inFlight' = NoFetch
    /\ UNCHANGED <<now, chatIds, currentChatId, isConnected, budget>>
    /\ UNCHANGED <<storageFull, otherTab, serverVars, normVars>>

\* script.js 506-537: startNewChat, the user confirming when asked; a
\* saveChatSession that throws (line 514) ends it before the new chat is
\* created
StartNewChat ==
    /\ budget > 0
    /\ LET saved == trySave(chatSessions, localStorage, currentChatId,
                             chatHistory, now, storageFull)
       IN  /\ chatSessions' = saved.sessions
           /\ localStorage' = saved.item
           /\ toDelete' = saved.deleted
           /\ IF saved.threw
              THEN UNCHANGED <<chatIds, currentChatId, chatHistory>>
              ELSE /\ chatIds' = chatIds + 1
                   /\ currentChatId' = chatIds + 1
                   /\ chatHistory' = << >>
    /\ budget' = budget - 1
    /\ UNCHANGED <<now, isProcessing, isConnected, inFlight>>
    /\ UNCHANGED <<storageFull, otherTab, serverVars, normVars>>

\* the chats the user opens from the history list: the first and the last
\* entry of chatSessions; 0 is the id of no session
ClickedIds ==
    {0} \cup {chatSessions[i].id : i \in {1, Len(chatSessions)} \cap DOMAIN chatSessions}

\* script.js 588-615: loadChat(chatId) for a saved chat or for an id that no
\* session has
LoadChat ==
    /\ budget > 0
    /\ \E chatId \in ClickedIds :
          IF chatId \notin idsOf(chatSessions)
          THEN UNCHANGED <<currentChatId, chatHistory, budget>>
          ELSE LET session == CHOOSE e \in {chatSessions[i] : i \in 1..Len(chatSessions)} :
                                  e.id = chatId
               IN  /\ currentChatId' = chatId
                   /\ chatHistory' = session.messages
                   /\ budget' = budget - 1
    /\ UNCHANGED <<now, chatIds, chatSessions, localStorage, isProcessing,
                   isConnected, inFlight, toDelete>>
    /\ UNCHANGED <<storageFull, otherTab, serverVars, normVars>>

\* a millisecond passes
Tick ==
    /\ budget > 0
    /\ now' = now + 1
    /\ budget' = budget - 1
    /\ UNCHANGED <<chatIds, currentChatId, chatHistory, chatSessions,
                   localStorage, isProcessing, isConnected, inFlight, toDelete>>
    /\ UNCHANGED <<storageFull, otherTab, serverVars, normVars>>

NextStore ==
    \/ TestConnection
    \/ SendMessage
    \/ FetchSettles
    \/ StartNewChat
    \/ LoadChat
    \/ Tick

SpecStore == InitStore /\ [][NextStore]_vars

(***************************************************************************)
(* Two tabs of the page on the same local storage.  Each tab read           *)
(* chatSessions from the key when it loaded (script.js 10) and writes the   *)
(* whole of its own chatSessions back in saveChatSession.                   *)
(***************************************************************************)
\* the chat id generateChatId gave the second tab: no id of the first tab
OtherTabChatId == SessionCap + MaxSteps + 2

\* both tabs have loaded
InitTabs ==
    /\ PageLoaded
    /\ otherTab = [open |-> TRUE, currentChatId |-> OtherTabChatId,
                   chatHistory |-> << >>,
                   chatSessions |-> JSONparse(localStorage),
                   toDelete |-> << >>]

\* script.js 159-300 in the second tab: a message was sent there (which
\* changes nothing outside that tab) and its fetch settles
OtherTabFetchSettles ==
    /\ budget > 0
    /\ otherTab.open
    /\ \E message \in {trim(input) : input \in ClientInputs} \ {<< >>},
          result \in FetchResults :
          \E after \in {afterFetch(otherTab.chatHistory, otherTab.chatSessions,
                                   localStorage, otherTab.currentChatId,
                                   message, result, now, storageFull)} :
              /\ otherTab' = [otherTab EXCEPT !.chatHistory = after.history,
                                               !.chatSessions = after.sessions,
                                               !.toDelete = after.deleted]
              /\ localStorage' = after.item
    /\ budget' = budget - 1
    /\ UNCHANGED <<now, chatIds, currentChatId, chatHistory, chatSessions,
                   isProcessing, isConnected, inFlight, toDelete, storageFull>>
    /\ UNCHANGED <<serverVars, normVars>>

NextTabs == NextStore \/ OtherTabFetchSettles

SpecTabs == InitTabs /\ [][NextTabs]_vars

(***************************************************************************)
(* Properties                                                              *)
(***************************************************************************)
\* the handler has run to its end
Finished == pc \in {"responded", "unanswered"}

\* a string with at least one character
NonEmptyString(v) == v.t = "string" /\ (v.s # << >> \/ v.lit # "")

\* messages is an array of message objects
ArrayOfMessages(body) ==
    /\ body.messages = "array"
    /\ \A i \in 1..Len(body.items) : ~body.items[i].isNull

\* messages is an array of message objects, at least one of role user, and
\* every user message has a string content
StringUserMessages(body) ==
    /\ ArrayOfMessages(body)
    /\ userMessagesOf(body.items) # << >>
    /\ \A i \in 1..Len(body.items) :
          body.items[i].role = "user" => body.items[i].content.t = "string"

\* the content of the last user message
LastUserText(body) ==
    LET um == userMessagesOf(body.items) IN um[Len(um)].content.s

\* the response is 200 with exactly one choice
OneChoice200 ==
    /\ pc = "responded"
    /\ response.status = 200
    /\ Len(response.choices) = 1
    /\ response.choices[1].role = "assistant"

\* the quick-reply cache of a variant (the Gemini variants have none)
CacheOf(v) ==
    CASE v = "serverGroq"  -> cacheServerGroq
      [] v = "part000Groq" -> quickResponses
      [] v = "part002Groq" -> cachePart002
      [] OTHER             -> [k \in {} |-> ""]

\* the upstream call failed: it was rejected, or it resolved with a payload
\* that has neither text path
UpstreamFailed(o) ==
    \/ o.settled = "rejected"
    \/ o.settled = "resolved" /\ o.candidates # "text" /\ o.choices # "text"

\* C1: a request with at least one user message of non-empty trimmed
\* content is, for every upstream outcome, answered with HTTP 200 and
\* exactly one choice whose message.content is a non-empty string.
C1_ValidRequestGetsReply ==
    (/\ Finished
     /\ request.messages = "array"
     /\ \E i \in 1..Len(request.items) :
           /\ request.items[i].role = "user"
           /\ request.items[i].content.t = "string"
           /\ trim(request.items[i].content.s) # << >>)
    => (OneChoice200 /\ NonEmptyString(response.choices[1].content))

\* C2: every upstream or normalization failure is answered with HTTP 200
\* and the envelope carrying a canned string of the Fallback Selector, and
\* the only other status the handler returns is 400, for a request without
\* a messages array or without a user message of non-empty content.
C2_FailuresBecomeFallback ==
    /\ (Finished /\ upstreamCalls = 1 /\ UpstreamFailed(outcome))
       => (/\ OneChoice200
           /\ path = "fallback"
           /\ response.choices[1].content.t = "string"
           /\ response.choices[1].content.lit # "")
    /\ (pc = "responded" /\ response.status # 200)
       => (/\ response.status = 400
           /\ ~(StringUserMessages(request) /\ trim(LastUserText(request)) # << >>))

\* C3: a request without messages, with messages that is no array, or with
\* messages of non-user roles only is answered with HTTP 400, without an
\* upstream call.
C3_NoUserMessageIs400 ==
    (/\ Finished
     /\ \/ request.messages \in {"absent", "nonarray"}
        \/ ArrayOfMessages(request) /\ userMessagesOf(request.items) = << >>)
    => (pc = "responded" /\ response.status = 400 /\ upstreamCalls = 0)

\* C4: a request whose user messages all have empty or white-space content
\* is answered with HTTP 400; no quick reply is served and no upstream call
\* is made.
C4_BlankUserMessageIs400 ==
    (/\ pc # "idle"
     /\ StringUserMessages(request)
     /\ \A i \in 1..Len(request.items) :
           request.items[i].role = "user" => trim(request.items[i].content.s) = << >>)
    => (/\ pc = "responded"
        /\ response.status = 400
        /\ path # "quick"
        /\ upstreamCalls = 0)

\* C5: every request, whatever its body, gets exactly one response; an
\* exception in the try block or in the catch block never leaves the
\* request unanswered.
C5_NeverUnanswered == pc # "unanswered"

\* C6: when the normalized last user message is a key of the quick-reply
\* cache, the handler answers 200 with that entry's reply and makes no
\* upstream call, whether or not the credential is configured.
C6_CacheBeforeNetwork ==
    (/\ pc # "idle"
     /\ StringUserMessages(request)
     /\ userMsgKey(LastUserText(request)) \in DOMAIN CacheOf(variant))
    => (/\ OneChoice200
        /\ response.choices[1].content =
               Lit(CacheOf(variant)[userMsgKey(LastUserText(request))])
        /\ upstreamCalls = 0)

\* C6 witness: a cached phrase is answered from the cache by the variant
\* that checks the credential, with no credential configured
C6_Witness ==
    /\ variant = "serverGroq"
    /\ ~keyPresent
    /\ pc = "responded"
    /\ path = "quick"
    /\ upstreamCalls = 0
    /\ request.items = <<Message("user", Str(txHello))>>

\* a request holding the one user message text
SingleUser(text) ==
    [messages |-> "array", items |-> <<Message("user", Str(text))>>]

\* C7: a user message whose trimmed, lower-cased content equals a cached
\* phrase p, but is written differently, gets the reply the handler gives
\* for p itself.
C7_LookupIgnoresCaseAndSpace ==
    \A p \in DOMAIN CacheOf(variant) :
        (/\ pc # "idle"
         /\ StringUserMessages(request)
         /\ LastUserText(request) # p
         /\ toLowerCase(trim(LastUserText(request))) = p)
        => (/\ pc = "responded"
            /\ response = Try(variant, SingleUser(p), keyPresent).resp
            /\ upstreamCalls = 0)

\* C7 witness: " Hello " is answered with the reply of "hello"
C7_Witness ==
    /\ variant = "part002Groq"
    /\ pc = "responded"
    /\ path = "quick"
    /\ request.items = <<Message("user", Str(txHelloMixed))>>
    /\ response.choices[1].content = Lit(cachePart002[keyHello])

\* C8: a normalized key that is none of the phrases defined in the cache,
\* such as one that contains a phrase or names a built-in property of the
\* lookup object, gets no quick reply: the request goes on to the upstream
\* call.
C8_OnlyDefinedPhrasesHit ==
    (/\ pc # "idle"
     /\ variant \notin GeminiVariants
     /\ StringUserMessages(request)
     /\ userMsgKey(LastUserText(request)) \notin DOMAIN CacheOf(variant))
    => (/\ path # "quick"
        /\ keyPresent => upstreamCalls = 1)

\* keyword groups of the Fallback Selector, in priority order
Greeting(t) == includes(t, kwHello) \/ includes(t, kwHi)
Identity(t) == includes(t, kwName)
Security(t) == includes(t, kwCyber) \/ includes(t, kwSecurity)
Language(t) == includes(t, kwKya)

\* the keyword groups a variant's selector has
GroupsOf(v) ==
    CASE v = "serverGemini" -> {"greeting", "identity"}
      [] v = "serverGroq"   -> {"greeting", "identity", "language"}
      [] v = "part002Groq"  -> {"greeting", "security", "language"}
      [] OTHER              -> {}

\* a keyword of the highest-priority group of v that the lower-cased text t
\* matches (no keyword: the generic catch-all)
TopKeyword(v, t) ==
    IF "greeting" \in GroupsOf(v) /\ Greeting(t) THEN kwHello
    ELSE IF "identity" \in GroupsOf(v) /\ Identity(t) THEN kwName
    ELSE IF "security" \in GroupsOf(v) /\ Security(t) THEN kwCyber
    ELSE IF "language" \in GroupsOf(v) /\ Language(t) THEN kwKya
    ELSE << >>

\* the text the catch block hands to the selector
SelectorText(body) ==
    LET found == findUserContent(body)
    IN  IF found.content.t = "string" THEN toLowerCase(found.content.s) ELSE << >>

\* C9: the fallback reply is the reply of the highest-priority keyword
\* group that the lower-cased user text matches, in the order greeting >
\* identity > security > language hint > generic.
C9_FallbackPriority ==
    (pc = "responded" /\ path = "fallback" /\ variant \in {"serverGemini", "serverGroq", "part002Groq"})
    => response.choices[1].content =
           Catch(variant, SingleUser(TopKeyword(variant, SelectorText(request))),
                 AxiosError(outcome)).resp.choices[1].content

\* C10: two failures of the same kind for the same user text get the same
\* fallback reply.
C10_FallbackDeterministic ==
    (/\ pc = "responded"
     /\ path = "fallback"
     /\ prev.set
     /\ prev.text = request.items[1].content
     /\ prev.kind = FailureKind(outcome))
    => prev.content = response.choices[1].content

\* C11: the body of a response on the failure path holds the envelope with
\* a canned reply and nothing of the failure: no provider error message and
\* no exception message.
C11_NoFailureDetail ==
    (pc = "responded" /\ path = "fallback") => response.error = Undefined

\* the request passes validation and the handler works on its last user
\* message: messages is an array of message objects, user contents are
\* strings and the last one is not blank
ValidRequest(body) ==
    /\ StringUserMessages(body)
    /\ trim(LastUserText(body)) # << >>

\* no request makes more than one upstream call, and a rejected or timed-out
\* call ends the request without a second call and without a success reply
AtMostOneCall ==
    /\ upstreamCalls <= 1
    /\ (Finished /\ outcome.settled = "rejected")
       => (upstreamCalls = 1 /\ path \in {"fallback", "unhandled"})

\* C12 as stated: a valid request that is not answered from the cache makes
\* exactly one upstream call, and no request makes more than one.
C12_ExactlyOneCall ==
    /\ AtMostOneCall
    /\ (pc # "idle" /\ ValidRequest(request) /\ path # "quick")
       => upstreamCalls = 1

\* C12 amended: a valid request that is not answered from the cache makes
\* exactly one upstream call when the credential is configured and none
\* when it is missing; no request makes more than one, and a rejected or
\* timed-out call is never repeated.
C12_OneCallWithCredential ==
    /\ AtMostOneCall
    /\ (pc # "idle" /\ ValidRequest(request) /\ path # "quick")
       => upstreamCalls = (IF variant = "serverGroq" /\ ~keyPresent THEN 0 ELSE 1)

\* C12 witness: the one call of a valid request timed out and the request
\* ended with a fallback reply after that single call
C12_Witness ==
    /\ pc = "responded"
    /\ path = "fallback"
    /\ ValidRequest(request)
    /\ outcome.settled = "rejected"
    /\ outcome.code = "ECONNABORTED"
    /\ upstreamCalls = 1

\* a case-insensitive occurrence of "gemini" or "google"
HasVendorToken(text) ==
    \/ includes(toLowerCase(text), reGemini)
    \/ includes(toLowerCase(text), reGoogle)

\* C13: the normalizer is idempotent: putting its output through the same
\* chain again returns that output unchanged.
C13_NormalizerIdempotent ==
    Len(normPasses) = 2 => normPasses[2] = normPasses[1]

\* C14: the output of the normalizer holds no case-insensitive occurrence
\* of "gemini" or "google", whatever the input, and for the text "I'm
\* Gemini, powered by Google's language model." it names the product in the
\* first person.
C14_NoVendorTokenLeft ==
    Len(normPasses) >= 1
    => (/\ ~HasVendorToken(normPasses[1])
        /\ normInput = ptVendor => includes(normPasses[1], subImCyberAI))

\* the handlers that read the OpenAI shape choices[0].message.content
OpenAIShapeVariants == {"serverGemini", "serverGroq", "part000Groq", "part002Groq"}

\* the provider text as it is or after one of the replacement chains
SubstitutedTexts(text) ==
    {Str(text)} \cup {Str(normalize(n, text)) : n \in Normalizers}

\* C15: when the phrase is not in the cache and the upstream call succeeds
\* with a text in OpenAI shape, the reply content is the provider text,
\* changed by vendor-token substitution at most: nothing else is prepended,
\* appended or removed.
C15_SuccessTextUnchanged ==
    (/\ Finished
     /\ variant \in OpenAIShapeVariants
     /\ outcome.settled = "resolved"
     /\ outcome.choices = "text"
     /\ outcome.text # << >>)
    => (/\ OneChoice200
        /\ response.choices[1].content \in SubstitutedTexts(outcome.text))

\* the sessions stored in local storage, as the page reads them
StoredSessions == JSONparse(localStorage)

\* chatSessions[id]
SessionOf(id) ==
    CHOOSE e \in {chatSessions[i] : i \in 1..Len(chatSessions)} : e.id = id

\* C16: after every saveChatSession at most 20 sessions are present in
\* chatSessions and in local storage, and what eviction removed was not
\* updated more recently than anything it kept: the 20 sessions with the
\* greatest lastUpdated remain.
C16_EvictionKeepsNewest ==
    /\ Len(chatSessions) <= SessionCap
    /\ Len(StoredSessions) <= SessionCap
    /\ toDelete # << >> =>
          /\ Len(chatSessions) = SessionCap
          /\ ~storageFull => StoredSessions = chatSessions
          /\ idsOf(toDelete) \cap idsOf(chatSessions) = {}
          /\ \A i \in 1..Len(toDelete) : \A j \in 1..Len(chatSessions) :
                 toDelete[i].lastUpdated <= chatSessions[j].lastUpdated

\* C16 witness: a twenty-first distinct session was saved and the least
\* recently updated one, the first chat ever saved, was evicted
C16_Witness ==
    /\ chatIds > SessionCap
    /\ Len(chatSessions) = SessionCap
    /\ idsOf(toDelete) = {1}
    /\ currentChatId \in idsOf(chatSessions)

\* C17: saving under an id that is present replaces that entry and adds no
\* second one, what is stored under the local-storage key is the in-memory
\* mapping once setItem has returned, and the messages kept under the
\* current chat id, which saveChatSession wrote and loadChat reads back, are
\* the chat history (of which sendMessage keeps the last MAX_HISTORY_ITEMS).
C17_SaveUpsertsAndPersists ==
    /\ Cardinality(idsOf(chatSessions)) = Len(chatSessions)
    /\ ~storageFull => StoredSessions = chatSessions
    /\ currentChatId \in idsOf(chatSessions)
          => chatHistory \in {SessionOf(currentChatId).messages,
                              lastN(SessionOf(currentChatId).messages, MAX_HISTORY_ITEMS)}

\* C17 witness: a chat saved by an earlier visit was loaded and a further
\* exchange was saved under its id
C17_Witness ==
    /\ currentChatId \in 1..(SessionCap - 1)
    /\ currentChatId < chatIds
    /\ Len(chatHistory) = 4
    /\ ~inFlight.active
    /\ SessionOf(currentChatId).lastUpdated = now

\* the handlers whose Fallback Selector reads the user text
SelectorVariants == {"serverGemini", "serverGroq", "part002Groq"}

\* the number of user messages of a request
UserCount(body) == Len(userMessagesOf(body.items))

\* C18: on the failure path the Fallback Selector is applied to the text of
\* the last user message, the one the handler extracted for the cache
\* lookup and the upstream call, also when the request holds more than one
\* user message.
C18_FallbackReadsLastUserMessage ==
    (/\ pc = "responded"
     /\ path = "fallback"
     /\ variant \in SelectorVariants
     /\ StringUserMessages(request)
     /\ UserCount(request) > 1)
    => response.choices[1].content =
           Catch(variant, SingleUser(LastUserText(request)),
                 AxiosError(outcome)).resp.choices[1].content

\* C19: a 2xx provider response that has neither choices[0].message.content
\* nor candidates[0].content.parts[0].text is answered through the Fallback
\* Selector, never with a default or empty text on the success path.
C19_MissingTextIsFailure ==
    (/\ Finished
     /\ StringUserMessages(request)
     /\ upstreamCalls = 1
     /\ outcome.settled = "resolved"
     /\ outcome.candidates # "text"
     /\ outcome.choices # "text")
    => (OneChoice200 /\ path = "fallback")

\* the size of the window of messages a handler forwards
WindowSize(v) ==
    CASE v = "part002Groq"   -> 8
      [] v = "part000Groq"   -> 5
      [] v = "part001Gemini" -> 6
      [] OTHER               -> 0

\* the index of the last user message of a request
LastUserIndex(body) ==
    CHOOSE i \in 1..Len(body.items) :
        /\ body.items[i].role = "user"
        /\ \A j \in (i + 1)..Len(body.items) : body.items[j].role # "user"

\* C20: the payload sent upstream holds the system instruction and the
\* trailing window of the request's messages (last 8, 5 or 6), and for every
\* valid request it holds the content of the last user message, also when
\* more non-user messages follow that message than the window holds.
C20_PayloadHoldsCurrentMessage ==
    (upstreamCalls = 1 /\ ValidRequest(request))
    => (/\ payload.system
        /\ payload.window = lastN(request.items, WindowSize(variant))
        /\ \/ payload.current = Str(LastUserText(request))
           \/ LastUserIndex(request) > Len(request.items) - Len(payload.window))

\* the failure of a kind that stands for the kind: for AuthError the 403
RepresentativeOf(kind) ==
    CHOOSE f \in UpstreamFailures :
        /\ FailureKind(f) = kind
        /\ kind = "AuthError" => f.status = 403

\* C21: every rejected upstream call has one failure kind (401 and 403 are
\* AuthError, 429 RateLimited, a timeout Timeout) and the fallback text
\* depends on the failure through that kind only: it is the text the catch
\* block gives for any other failure of the kind, so a 401 gets the reply
\* of a 403.
C21_FallbackByKindOnly ==
    (pc = "responded" /\ path = "fallback" /\ outcome.settled = "rejected")
    => response.choices[1].content =
           Catch(variant, request,
                 AxiosError(RepresentativeOf(FailureKind(outcome)))).resp.choices[1].content

\* every session stored before a step is stored after it or is among the
\* entries deleted
StoredKept(deleted) ==
    \A id \in idsOf(StoredSessions) :
        id \in idsOf(StoredSessions)' \/ id \in idsOf(deleted)

\* C22: with two tabs on the same local-storage key, a save of one tab
\* leaves every session in local storage that the other tab persisted,
\* unless the save's 20-session eviction removed it.
C22_SaveKeepsOtherTabsSessions ==
    [][IF otherTab' # otherTab
       THEN StoredKept(otherTab'.toDelete)
       ELSE StoredKept(toDelete')]_vars

\* the session id of sessions ends with the exchange of message
ExchangeSavedUnder(sessions, id, message) ==
    \E i \in 1..Len(sessions) :
        /\ sessions[i].id = id
        /\ Len(sessions[i].messages) >= 2
        /\ sessions[i].messages[Len(sessions[i].messages) - 1]
               = HistoryEntry("user", Str(message))
        /\ sessions[i].messages[Len(sessions[i].messages)].role = "assistant"

\* the sessions of after other than id are sessions of before
OtherSessionsKept(before, after, id) ==
    \A i \in 1..Len(after) :
        after[i].id # id => \E j \in 1..Len(before) : before[j] = after[i]

\* C23: when the backend request of sendMessage settles, the exchange is
\* saved under the chat id that was current when sendMessage was invoked
\* and no other session's history changes, also when startNewChat or
\* loadChat ran while the request was in flight.
C23_ExchangeStaysInItsSession ==
    [][(inFlight.active /\ ~inFlight'.active)
       => /\ ExchangeSavedUnder(chatSessions', inFlight.chatId, inFlight.message)
          /\ OtherSessionsKept(chatSessions, chatSessions', inFlight.chatId)]_vars

\* after is before with one user entry of message and one assistant entry
\* appended, cut to its last MAX_HISTORY_ITEMS entries or not
OneExchangeAppended(before, after, message) ==
    /\ after # << >>
    /\ after[Len(after)].role = "assistant"
    /\ LET pushed == before \o <<HistoryEntry("user", Str(message)), after[Len(after)]>>
       IN  after \in {pushed, lastN(pushed, MAX_HISTORY_ITEMS)}

\* C24: a sendMessage call that passed its guard appends exactly one user
\* entry and one assistant entry to chatHistory, through the success path or
\* the fallback path and never both, also when saveChatSession throws after
\* the push of the success path.
C24_OneExchangePerSend ==
    [][(inFlight.active /\ ~inFlight'.active)
       => OneExchangeAppended(chatHistory, chatHistory', inFlight.message)]_vars

\* C25: at most one backend chat request is in flight per page: a request
\* is pending exactly while isProcessing is true, sendMessage starts none
\* while it is, and isProcessing is false again once the fetch has settled,
\* with a reply, a status that is not ok, an unrecognized body or a
\* rejection.
C25_OneRequestInFlight ==
    /\ inFlight.count <= 1
    /\ inFlight.active <=> inFlight.count = 1
    /\ isProcessing <=> inFlight.active

\* C25 witness: two requests were sent one after the other and both have
\* settled, the second one on the fallback path
C25_Witness ==
    /\ ~isProcessing
    /\ ~inFlight.active
    /\ ~storageFull
    /\ budget = MaxSteps - 2
    /\ Len(chatHistory) = 4
    /\ chatHistory[4].content.lit # ""

\* a step in which saveChatSession wrote a session under currentChatId and
\* returned: the end of sendMessage, or startNewChat with a chat to save
SaveReturned ==
    /\ ~storageFull
    /\ \/ inFlight.active /\ ~inFlight'.active
       \/ chatIds' # chatIds /\ chatHistory # << >>

\* C26: the session saveChatSession wrote is in chatSessions and in local
\* storage when saveChatSession returns: eviction does not remove it, also
\* when more than 20 sessions exist and others share its lastUpdated.
C26_SavedSessionSurvivesEviction ==
    [][SaveReturned
       => /\ currentChatId \in idsOf(chatSessions')
          /\ currentChatId \in idsOf(JSONparse(localStorage'))]_vars

\* C27: when a sendMessage call has completed, on the success path or on the
\* fallback path, chatHistory holds at most MAX_HISTORY_ITEMS entries.
C27_HistoryBounded ==
    [][(inFlight.active /\ ~inFlight'.active)
       => Len(chatHistory') <= MAX_HISTORY_ITEMS]_vars

\* the content of the first user-role message of a history
FirstUserContent(messages) ==
    SelectSeq(messages, LAMBDA m : m.role = "user")[1].content.s

\* the title of session is its first user message, cut after 30 characters
\* and marked with "..." when it is longer
TitleFromFirstUserMessage(session) ==
    /\ \E k \in 1..Len(session.messages) : session.messages[k].role = "user"
    /\ LET content == FirstUserContent(session.messages)
       IN  IF Len(content) <= 30
           THEN session.title = content
           ELSE /\ Len(session.title) = 33
                /\ SubSeq(session.title, 1, 30) = SubSeq(content, 1, 30)
                /\ SubSeq(session.title, 31, 33) = <<".", ".", ".">>
    /\ Len(session.title) <= 33

\* C28: the title of every saved session, in chatSessions and in local
\* storage, is the content of the first user message of its history when
\* that has at most 30 characters, and its first 30 characters followed by
\* "..." otherwise; no title is longer than 33 characters.
C28_TitleFromFirstUserMessage ==
    /\ \A i \in 1..Len(chatSessions) : TitleFromFirstUserMessage(chatSessions[i])
    /\ \A i \in 1..Len(StoredSessions) : TitleFromFirstUserMessage(StoredSessions[i])

\* C28 witness: a chat that begins with a message of 37 characters was saved
\* under a title of 33 characters, and is in local storage
C28_Witness ==
    \E i \in 1..Len(StoredSessions) :
        /\ StoredSessions[i].id = currentChatId
        /\ StoredSessions[i].messages[1].content.s = txLong
        /\ Len(StoredSessions[i].title) = 33
        /\ StoredSessions[i].lastUpdated = now

\* least number of consecutive characters of the key that count as a piece
\* of it (shorter runs occur in any text)
MinPiece == 4

\* the pieces of the key of MinPiece characters
KeyPieces ==
    {SubSeq(ApiKey, i, i + MinPiece - 1) : i \in 1..(Len(ApiKey) - MinPiece + 1)}

\* text holds the key or a piece of it
HoldsKeyPiece(text) == \E piece \in KeyPieces : includes(text, piece)

\* the texts of the HTTP responses that are computed from data: the key
\* preview of a GET response, the contents of the choices and the error
\* field of a chat response
ResponseTexts ==
    {info.keyPreview, response.error.s}
    \cup {response.choices[i].content.s : i \in 1..Len(response.choices)}

\* C29: no HTTP response of GET /health, POST /api/chat or GET /test holds
\* the provider API credential or a piece of it.
C29_NoCredentialInResponses ==
    \A text \in ResponseTexts : ~HoldsKeyPiece(text)

====
